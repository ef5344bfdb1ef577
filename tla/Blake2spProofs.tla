--------------------------- MODULE Blake2spProofs ----------------------------
(***************************************************************************)
(* The context of BLAKE2sp, fed with buffers of any length, computes the   *)
(* hash by its definition, for blocks and digests of any size, any number  *)
(* of leaves and any width of the counter's words: it implements           *)
(* StreamHash.                                                             *)
(*                                                                         *)
(* A node is described by the sequence it is fed and the number of its     *)
(* members the node has been given: the whole blocks before the last       *)
(* member are compressed, and the buffer begins with the rest.             *)
(***************************************************************************)
EXTENDS Blake2sp, FoldProofs

BlakeNames == {"BLAKE2sp"}
BlakeByte(name) == Byte
HashDigest(name, data) == BlakeDigest(data)

(* StreamHash with this one algorithm.                                     *)
Hash == INSTANCE StreamHash WITH
          Names <- BlakeNames, Byte <- BlakeByte, Digest <- HashDigest, algorithm <- "BLAKE2sp"
-----------------------------------------------------------------------------
LEMMA Sizes ==
  ASSUME BlakeAssumption
  PROVE  /\ BlockSize \in Nat \ {0} /\ DigestSize \in Nat \ {0} /\ DigestSize <= BlockSize
         /\ Degree \in Nat \ {0} /\ WordMod \in Nat \ {0} /\ BlockSize <= WordMod
         /\ MaxLength \in Nat
BY DEF BlakeAssumption

(* Division with the rest that is left.                                    *)
LEMMA DivisionIs ==
  ASSUME NEW n \in Nat, NEW d \in Nat \ {0}, NEW q \in Nat, NEW r \in 0..(d - 1), n = q * d + r
  PROVE  n \div d = q /\ n % d = r
<1> DEFINE x == q * d
<1>1. x \in Nat /\ (q + 1) * d = x + d
  BY TimesKeepsOrder
<1>2. n \div d = q
  <2>1. x <= n /\ n < x + d
    <3> HIDE DEF x
    <3>1. n = x + r
      BY DEF x
    <3>2. QED  BY <1>1, <3>1
  <2>2. QED  BY <1>1, <2>1, QuotientIs
<1>3. n % d = n - (n \div d) * d
  BY QuotientBounds
<1>4. n % d = n - x
  BY <1>2, <1>3
<1>5. n = x + r
  OBVIOUS
<1> HIDE DEF x
<1>6. QED  BY <1>1, <1>2, <1>4, <1>5

LEMMA RestOfSum ==
  ASSUME NEW a \in Nat, NEW b \in Nat, NEW d \in Nat \ {0}
  PROVE  ((a % d) + b) % d = (a + b) % d
<1> DEFINE q == a \div d
           r == a % d
           c == r + b
           p == c \div d
           s == c % d
<1>1. q \in Nat /\ r \in Nat /\ a = q * d + r
  <2> DEFINE x == q * d
  <2>1. q \in Nat /\ r \in 0..(d - 1) /\ r = a - x
    BY QuotientBounds
  <2>2. x \in Nat /\ r = a - x /\ r \in Nat
    BY <2>1, TimesKeepsOrder
  <2> HIDE DEF x, r, q
  <2>3. a = x + r
    BY <2>2
  <2>4. QED  BY <2>1, <2>2, <2>3 DEF x
<1>2. c \in Nat
  BY <1>1
<1> HIDE DEF c
<1>3. p \in Nat /\ s \in 0..(d - 1) /\ s = c - p * d
  BY <1>2, QuotientBounds
<1> HIDE DEF p, s, q, r
<1> DEFINE x == q * d
           y == p * d
<1>4. x \in Nat /\ y \in Nat /\ (q + p) * d = x + y /\ q + p \in Nat
  BY <1>1, <1>3
<1>5. a = x + r /\ c = r + b /\ s = c - y
  BY <1>1, <1>3 DEF c
<1> HIDE DEF x, y
<1>6. a + b = (x + y) + s /\ a + b \in Nat
  BY <1>1, <1>2, <1>3, <1>4, <1>5
<1>7. (a + b) % d = s
  BY <1>3, <1>4, <1>6, DivisionIs
<1>8. QED  BY <1>7 DEF s, c, r

(* Assignments to the members of a node.                                   *)
WithH(p, v) == [p EXCEPT !.h = v]
WithT(p, v) == [p EXCEPT !.t = v]
WithF(p, v) == [p EXCEPT !.f = v]
WithBuf(p, v) == [p EXCEPT !.buf = v]
WithPos(p, v) == [p EXCEPT !.bufPos = v]

(* The counter counts, and carries into its second word.                   *)
LEMMA CounterMoves ==
  ASSUME BlakeAssumption, NEW p, NEW a \in Nat, NEW inc \in 0..WordMod, p.t = Counter(a)
  PROVE  Blake2s_Increment_Counter(p, inc) = WithT(p, Counter(a + inc))
<1> DEFINE W == WordMod
           q == a \div W
           r == a % W
           x == q * W
           t0 == (r + inc) % W
<1>1. W \in Nat \ {0} /\ inc \in Nat /\ inc <= W
  BY Sizes
<1>2. q \in Nat /\ r \in 0..(W - 1) /\ r = a - x /\ x \in Nat /\ (q + 1) * W = x + W
  <2>1. q \in Nat /\ r \in 0..(W - 1) /\ r = a - x
    BY <1>1, QuotientBounds
  <2> HIDE DEF q, r, W
  <2>2. x \in Nat /\ (q + 1) * W = x + W
    BY <1>1, <2>1, TimesKeepsOrder
  <2>3. QED  BY <2>1, <2>2
<1>3. t0 = (a + inc) % W
  BY <1>1, RestOfSum
<1>4. (a + inc) \div W = q + Carry(t0, inc)
  <2> HIDE DEF W, q, r, x
  <2>1. r \in Nat /\ r < W /\ a = x + r /\ a + inc = x + (r + inc) /\ q * W = x
    BY <1>1, <1>2 DEF x
  <2>2. CASE r + inc < W
    <3>1. r + inc \in 0..(W - 1) /\ a + inc \in Nat
      BY <1>1, <2>1, <2>2
    <3>2. a + inc = q * W + (r + inc)
      BY <2>1
    <3> DEFINE s == r + inc
               m == a + inc
    <3> HIDE DEF s, m
    <3>3. m \div W = q /\ m % W = s
      <4>1. m = q * W + s /\ m \in Nat /\ s \in 0..(W - 1)
        BY <3>1, <3>2 DEF s, m
      <4>2. QED  BY <1>1, <1>2, <4>1, DivisionIs
    <3>4. t0 = r + inc
      BY <1>3, <3>3 DEF s, m
    <3> HIDE DEF t0
    <3>5. Carry(t0, inc) = 0
      BY <1>1, <2>1, <3>4 DEF Carry
    <3>6. QED  BY <1>2, <3>3, <3>5 DEF m
  <2>3. CASE ~(r + inc < W)
    <3> DEFINE s == (r + inc) - W
    <3>1. s \in 0..(W - 1) /\ a + inc \in Nat /\ s < inc /\ q + 1 \in Nat
      BY <1>1, <1>2, <2>1, <2>3
    <3>2. a + inc = (x + W) + s
      BY <1>1, <1>2, <2>1
    <3> HIDE DEF s
    <3>3. a + inc = (q + 1) * W + s
      BY <1>2, <3>2
    <3>4. (a + inc) \div W = q + 1 /\ (a + inc) % W = s
      BY <1>1, <3>1, <3>3, DivisionIs
    <3>5. t0 = s
      BY <1>3, <3>4
    <3> HIDE DEF t0
    <3>6. Carry(t0, inc) = 1
      BY <3>1, <3>5 DEF Carry
    <3>7. QED  BY <3>4, <3>6
  <2>4. QED  BY <2>2, <2>3
<1>5. p.t[1] = r /\ p.t[2] = q % W
  BY DEF Counter
<1>6. Carry(t0, inc) \in Nat
  BY DEF Carry
<1>7. (p.t[2] + Carry(t0, inc)) % W = (q + Carry(t0, inc)) % W
  <2> DEFINE c == Carry(t0, inc)
  <2>1. c \in Nat /\ q \in Nat /\ p.t[2] = q % W
    BY <1>2, <1>5, <1>6
  <2> HIDE DEF c, q, W
  <2>2. ((q % W) + c) % W = (q + c) % W
    BY <1>1, <2>1, RestOfSum
  <2>3. QED  BY <2>1, <2>2 DEF c
<1>8. Blake2s_Increment_Counter(p, inc) = WithT(p, <<t0, (p.t[2] + Carry(t0, inc)) % W>>)
  BY <1>5 DEF Blake2s_Increment_Counter, WithT
<1>9. Counter(a + inc) = <<t0, (q + Carry(t0, inc)) % W>>
  BY <1>3, <1>4 DEF Counter
<1> HIDE DEF t0, q, r
<1>10. QED  BY <1>7, <1>8, <1>9
-----------------------------------------------------------------------------
(* A function on the first numbers with one member more.                   *)
LEMMA GrownIs ==
  ASSUME NEW n \in Nat, NEW c, c = [k \in 1..n |-> c[k]], NEW v
  PROVE  Append(c, v) = [k \in 1..(n + 1) |-> IF k = n + 1 THEN v ELSE c[k]]
<1> DEFINE T == {c[k] : k \in 1..n} \cup {v}
           a == Append(c, v)
<1>1. c \in Seq(T) /\ Len(c) = n
  <2>1. \A k \in 1..n : c[k] \in T
    OBVIOUS
  <2> HIDE DEF T
  <2>2. c \in [1..n -> T]
    BY <2>1
  <2>3. QED  BY <2>2
<1>2. v \in T
  OBVIOUS
<1> HIDE DEF T
<1>3. a \in Seq(T) /\ Len(a) = n + 1 /\ (\A k \in 1..n : a[k] = c[k]) /\ a[n + 1] = v
  BY <1>1, <1>2, AppendProperties
<1> HIDE DEF a
<1>4. \A k \in 1..(n + 1) : a[k] = IF k = n + 1 THEN v ELSE c[k]
  <2>1. \A k \in 1..(n + 1) : k # n + 1 => k \in 1..n
    OBVIOUS
  <2>2. QED  BY <1>3, <2>1
<1>5. a = [k \in 1..(n + 1) |-> a[k]]
  BY <1>3
<1>6. QED  BY <1>4, <1>5 DEF a

(* The flags of a node before its last block, and at it.                   *)
Open == <<FALSE, FALSE>>
Closed(last) == <<TRUE, last>>

(* A block of a sequence, and all that a node has compressed after n.      *)
Blk(e, k) ==
  <<[i \in 0..(BlockSize - 1) |-> e[(k - 1) * BlockSize + i + 1]],
    Counter(k * BlockSize), Open>>
Chain(place, e, n) == [k \in 1..(n + 1) |-> IF k = 1 THEN place ELSE Blk(e, k - 1)]

Record(h, t, f, buf, pos, last) ==
  [h |-> h, t |-> t, f |-> f, buf |-> buf, bufPos |-> pos, lastNode |-> last]
Node(h, t, buf, pos, last) == Record(h, t, Open, buf, pos, last)

(* The buffer begins with what is given of e after n blocks.               *)
Begins(b, e, x, n) ==
  /\ b = [i \in 0..(BlockSize - 1) |-> b[i]]
  /\ \A i \in 0..(BlockSize - 1) : i < x - n * BlockSize => b[i] = e[n * BlockSize + i + 1]

(* The node, with b as its buffer, has been given the first x of e: n      *)
(* blocks, and the rest.                                                   *)
Holds(p, b, place, last, e, x, n) ==
  /\ p = Node(Chain(place, e, n), Counter(n * BlockSize), b, x - n * BlockSize, last)
  /\ x - n * BlockSize \in 0..BlockSize
  /\ Begins(b, e, x, n)

(* No block is compressed before a byte comes that is after it.            *)
Absorbed(p, place, last, e, x) ==
  \E n \in Nat : /\ \E b : Holds(p, b, place, last, e, x, n)
                 /\ ((x = 0 /\ n = 0) \/ n * BlockSize < x)

LEMMA ChainGrows ==
  ASSUME NEW place, NEW e, NEW n \in Nat, NEW v
  PROVE  /\ Append(Chain(place, e, n), v) =
              [k \in 1..(n + 2) |-> IF k = n + 2 THEN v ELSE Chain(place, e, n)[k]]
         /\ Append(Chain(place, e, n), Blk(e, n + 1)) = Chain(place, e, n + 1)
<1> DEFINE c == Chain(place, e, n)
           g == Chain(place, e, n + 1)
           b == Blk(e, n + 1)
<1>1. c = [k \in 1..(n + 1) |-> IF k = 1 THEN place ELSE Blk(e, k - 1)]
  BY DEF Chain
<1>2. g = [k \in 1..(n + 2) |-> IF k = 1 THEN place ELSE Blk(e, k - 1)]
  <2>1. (n + 1) + 1 = n + 2
    OBVIOUS
  <2>2. QED  BY <2>1 DEF Chain
<1> HIDE DEF c, g
<1>3. n + 1 \in Nat /\ (n + 1) + 1 = n + 2 /\ c = [k \in 1..(n + 1) |-> c[k]]
  BY <1>1
<1>4. \A w : Append(c, w) = [k \in 1..(n + 2) |-> IF k = n + 2 THEN w ELSE c[k]]
  <2> TAKE w
  <2>1. Append(c, w) = [k \in 1..((n + 1) + 1) |-> IF k = (n + 1) + 1 THEN w ELSE c[k]]
    BY <1>3, GrownIs
  <2>2. QED  BY <1>3, <2>1
<1>5. Append(c, b) = [k \in 1..(n + 2) |-> IF k = n + 2 THEN b ELSE c[k]]
  BY <1>4
<1>6. ASSUME NEW k \in 1..(n + 2) PROVE (IF k = n + 2 THEN b ELSE c[k]) = g[k]
  <2>1. CASE k = n + 2
    <3>1. k # 1 /\ k - 1 = n + 1
      BY <2>1
    <3>2. QED  BY <1>2, <2>1, <3>1
  <2>2. CASE k # n + 2
    <3>1. k \in 1..(n + 1)
      BY <2>2
    <3>2. QED  BY <1>1, <1>2, <2>2, <3>1
  <2>3. QED  BY <2>1, <2>2
<1>7. g = [k \in 1..(n + 2) |-> g[k]]
  BY <1>2
<1> HIDE DEF b
<1>8. Append(c, b) = g
  BY <1>5, <1>6, <1>7
<1>9. QED  BY <1>4, <1>8 DEF b, c, g

-----------------------------------------------------------------------------
(* What is between two places of a sequence, and what is between two of    *)
(* its own.                                                                *)
LEMMA PartIs ==
  ASSUME NEW T, NEW s \in Seq(T), NEW x \in 0..Len(s), NEW y \in x..Len(s)
  PROVE  /\ SubSeq(s, x + 1, y) \in Seq(T) /\ Len(SubSeq(s, x + 1, y)) = y - x
         /\ \A i \in 1..(y - x) : SubSeq(s, x + 1, y)[i] = s[x + i]
<1> DEFINE p == SubSeq(s, x + 1, y)
           N == Len(s)
<1>1. /\ N \in Nat /\ x \in Nat /\ y \in Nat /\ x <= y /\ y <= N /\ x + 1 \in Int
      /\ \A i \in (x + 1)..y : s[i] \in T
  OBVIOUS
<1>2. /\ p \in Seq(T) /\ Len(p) = (IF x + 1 <= y THEN y - (x + 1) + 1 ELSE 0)
      /\ \A i \in 1..(y - (x + 1) + 1) : p[i] = s[(x + 1) + i - 1]
  BY <1>1, SubSeqProperties
<1> HIDE DEF p, N
<1>3. Len(p) = y - x
  BY <1>1, <1>2
<1>4. ASSUME NEW i \in 1..(y - x) PROVE p[i] = s[x + i]
  <2>1. i \in 1..(y - (x + 1) + 1) /\ (x + 1) + i - 1 = x + i
    BY <1>1
  <2>2. QED  BY <1>2, <2>1
<1>5. QED  BY <1>2, <1>3, <1>4 DEF p

LEMMA SameSequence ==
  ASSUME NEW T, NEW s \in Seq(T), NEW t \in Seq(T), NEW n, Len(s) = n, Len(t) = n,
         \A i \in 1..n : s[i] = t[i]
  PROVE  s = t
OBVIOUS

LEMMA PartOfPart ==
  ASSUME NEW T, NEW s \in Seq(T), NEW x \in 0..Len(s), NEW y \in x..Len(s), NEW z \in x..y
  PROVE  /\ SubSeq(SubSeq(s, x + 1, y), 1, z - x) = SubSeq(s, x + 1, z)
         /\ SubSeq(SubSeq(s, x + 1, y), (z - x) + 1, Len(SubSeq(s, x + 1, y))) = SubSeq(s, z + 1, y)
<1> DEFINE d == SubSeq(s, x + 1, y)
           N == Len(s)
           k == z - x
           m == y - x
           a == SubSeq(d, 1, k)
           b == SubSeq(d, k + 1, m)
           u == SubSeq(s, x + 1, z)
           v == SubSeq(s, z + 1, y)
<1>1. /\ N \in Nat /\ x \in Nat /\ y \in Nat /\ z \in Nat /\ k \in Nat /\ m \in Nat
      /\ k <= m /\ z <= N /\ x + k = z /\ x + m = y /\ m - k = y - z
  OBVIOUS
<1>2. d \in Seq(T) /\ Len(d) = m /\ \A i \in 1..m : d[i] = s[x + i]
  BY PartIs
<1>3. u \in Seq(T) /\ Len(u) = k /\ \A i \in 1..k : u[i] = s[x + i]
  <2>1. z \in x..Len(s)
    OBVIOUS
  <2>2. QED  BY <2>1, PartIs
<1>4. v \in Seq(T) /\ Len(v) = m - k /\ \A i \in 1..(m - k) : v[i] = s[z + i]
  <2>1. z \in 0..Len(s) /\ y \in z..Len(s)
    OBVIOUS
  <2>2. v \in Seq(T) /\ Len(v) = y - z /\ \A i \in 1..(y - z) : v[i] = s[z + i]
    BY <2>1, PartIs
  <2>3. QED  BY <1>1, <2>2
<1> HIDE DEF d, k, m, u, v, N
<1>5. a \in Seq(T) /\ Len(a) = k /\ \A i \in 1..k : a[i] = d[i]
  <2>1. 0 \in 0..Len(d) /\ k \in 0..Len(d) /\ 0 + 1 = 1 /\ k - 0 = k
    BY <1>1, <1>2
  <2>2. /\ SubSeq(d, 0 + 1, k) \in Seq(T) /\ Len(SubSeq(d, 0 + 1, k)) = k - 0
        /\ \A i \in 1..(k - 0) : SubSeq(d, 0 + 1, k)[i] = d[0 + i]
    BY <1>2, <2>1, PartIs
  <2>3. \A i \in 1..k : 0 + i = i
    BY <1>1
  <2>4. QED  BY <2>1, <2>2, <2>3
<1>6. b \in Seq(T) /\ Len(b) = m - k /\ \A i \in 1..(m - k) : b[i] = d[k + i]
  <2>1. k \in 0..m /\ m \in k..m
    BY <1>1
  <2>2. k \in 0..Len(d) /\ m \in k..Len(d)
    BY <1>2, <2>1
  <2>3. QED  BY <1>2, <2>2, PartIs
<1> HIDE DEF a, b
<1>7. a = u
  <2>1. \A i \in 1..k : i \in 1..m
    BY <1>1
  <2>2. \A i \in 1..k : a[i] = u[i]
    BY <1>2, <1>3, <1>5, <2>1
  <2>3. QED  BY <1>3, <1>5, <2>2, SameSequence
<1>8. b = v
  <2>1. \A i \in 1..(m - k) : k + i \in 1..m /\ x + (k + i) = z + i
    BY <1>1
  <2>2. \A i \in 1..(m - k) : b[i] = v[i]
    BY <1>2, <1>4, <1>6, <2>1
  <2>3. QED  BY <1>4, <1>6, <2>2, SameSequence
<1>9. QED  BY <1>2, <1>7, <1>8 DEF a, b, d, u, v, k
-----------------------------------------------------------------------------
(* The node that has absorbed nothing, and what its state depends on.      *)
LEMMA FreshHolds ==
  ASSUME BlakeAssumption, NEW offset, NEW depth, NEW last, NEW e, NEW p,
         p = [Blake2sp_Init_Spec(offset, depth) EXCEPT !.lastNode = last]
  PROVE  Absorbed(p, <<offset, depth>>, last, e, 0)
<1> DEFINE place == <<offset, depth>>
           b == [i \in 0..(BlockSize - 1) |-> Zero]
<1>1. BlockSize \in Nat \ {0} /\ WordMod \in Nat \ {0}
  BY Sizes
<1>2. p = Node(<<place>>, <<0, 0>>, b, 0, last)
  BY DEF Blake2sp_Init_Spec, Node, Record, Open
<1> HIDE DEF b
<1>3. 0 * BlockSize = 0 /\ 0 - 0 = 0 /\ 0 \in 0..BlockSize
  BY <1>1
<1>4. Counter(0) = <<0, 0>>
  <2>1. 0 \div WordMod = 0 /\ 0 % WordMod = 0
    <3>1. 0 = 0 * WordMod + 0 /\ 0 \in 0..(WordMod - 1)
      BY <1>1
    <3>2. QED  BY <1>1, <3>1, DivisionIs
  <2>2. QED  BY <2>1 DEF Counter
<1>5. Chain(place, e, 0) = <<place>>
  <2>1. 1..(0 + 1) = {1} /\ \A k \in 1..(0 + 1) : k = 1
    OBVIOUS
  <2>2. Chain(place, e, 0) = [k \in {1} |-> place]
    BY <2>1 DEF Chain
  <2> HIDE DEF place
  <2>3. <<place>> = [k \in {1} |-> place]
    OBVIOUS
  <2>4. QED  BY <2>2, <2>3
<1>6. b = [i \in 0..(BlockSize - 1) |-> b[i]]
  BY DEF b
<1>7. \A i \in 0..(BlockSize - 1) : ~(i < 0)
  BY <1>1
<1> HIDE DEF place
<1>8. Holds(p, b, place, last, e, 0, 0)
  <2>1. Begins(b, e, 0, 0)
    BY <1>3, <1>6, <1>7 DEF Begins
  <2>2. QED  BY <1>2, <1>3, <1>4, <1>5, <2>1 DEF Holds
<1>9. QED  BY <1>8 DEF Absorbed, place

LEMMA ChainAgrees ==
  ASSUME BlakeAssumption, NEW place, NEW e, NEW g, NEW n \in Nat, NEW x \in Nat,
         n * BlockSize <= x, \A i \in 1..x : e[i] = g[i]
  PROVE  Chain(place, e, n) = Chain(place, g, n)
<1> DEFINE B == BlockSize
<1>1. B \in Nat \ {0}
  BY Sizes
<1>2. ASSUME NEW k \in 1..n PROVE Blk(e, k) = Blk(g, k)
  <2> DEFINE a == (k - 1) * B
             m == n * B
  <2>1. a \in Nat /\ a + B <= m
    <3>1. k - 1 \in Nat /\ (k - 1) + 1 = k /\ k \in Nat /\ k <= n
      OBVIOUS
    <3>2. ((k - 1) + 1) * B = a + B /\ a \in Nat
      BY <1>1, <3>1, TimesKeepsOrder
    <3>3. k * B <= m
      BY <1>1, <3>1, TimesKeepsOrder
    <3> HIDE DEF a, m
    <3>4. QED  BY <3>1, <3>2, <3>3
  <2>2. m <= x /\ m \in Nat
    BY <1>1, TimesKeepsOrder
  <2> HIDE DEF a, m, B
  <2>3. \A i \in 0..(B - 1) : a + i + 1 \in 1..x
    BY <1>1, <2>1, <2>2
  <2>4. \A i \in 0..(B - 1) : e[a + i + 1] = g[a + i + 1]
    BY <2>3
  <2>5. QED  BY <2>4 DEF Blk, a, B
<1>3. \A k \in 1..(n + 1) : k # 1 => k - 1 \in 1..n
  OBVIOUS
<1>4. QED  BY <1>2, <1>3 DEF Chain

LEMMA Agrees ==
  ASSUME BlakeAssumption, NEW p, NEW place, NEW last, NEW e, NEW g, NEW x \in Nat,
         \A i \in 1..x : e[i] = g[i], Absorbed(p, place, last, e, x)
  PROVE  Absorbed(p, place, last, g, x)
<1> DEFINE B == BlockSize
<1>1. PICK n \in Nat : /\ \E b : Holds(p, b, place, last, e, x, n)
                      /\ ((x = 0 /\ n = 0) \/ n * B < x)
  BY DEF Absorbed
<1>0. PICK b : Holds(p, b, place, last, e, x, n)
  BY <1>1
<1> DEFINE m == n * B
<1>2. B \in Nat \ {0} /\ m \in Nat /\ m <= x
  <2>1. B \in Nat \ {0}
    BY Sizes
  <2>2. m \in Nat /\ (n = 0 => m = 0)
    BY <2>1, TimesKeepsOrder
  <2> HIDE DEF m, B
  <2>3. QED  BY <1>1, <2>1, <2>2 DEF m, B
<1>3. Chain(place, e, n) = Chain(place, g, n)
  BY <1>2, ChainAgrees
<1>4. ASSUME NEW i \in 0..(B - 1), i < x - m PROVE b[i] = g[m + i + 1]
  <2>1. b[i] = e[m + i + 1]
    BY <1>0, <1>4 DEF Holds, Begins
  <2>2. m + i + 1 \in 1..x
    <3> HIDE DEF m, B
    <3>1. QED  BY <1>2, <1>4
  <2>3. QED  BY <2>1, <2>2
<1>5. Holds(p, b, place, last, g, x, n)
  <2>1. b = [i \in 0..(B - 1) |-> b[i]]
    BY <1>0 DEF Holds, Begins
  <2>2. Begins(b, g, x, n)
    BY <1>4, <2>1 DEF Begins
  <2>3. QED  BY <1>0, <1>3, <2>2 DEF Holds
<1>6. QED  BY <1>1, <1>5 DEF Absorbed

-----------------------------------------------------------------------------
(* The fields of a node.                                                   *)
LEMMA RecordFields ==
  ASSUME NEW h, NEW t, NEW f, NEW b, NEW k, NEW l
  PROVE  /\ Record(h, t, f, b, k, l).h = h /\ Record(h, t, f, b, k, l).t = t
         /\ Record(h, t, f, b, k, l).f = f /\ Record(h, t, f, b, k, l).buf = b
         /\ Record(h, t, f, b, k, l).bufPos = k /\ Record(h, t, f, b, k, l).lastNode = l
         /\ \A v : /\ WithH(Record(h, t, f, b, k, l), v) = Record(v, t, f, b, k, l)
                  /\ WithT(Record(h, t, f, b, k, l), v) = Record(h, v, f, b, k, l)
                  /\ WithF(Record(h, t, f, b, k, l), v) = Record(h, t, v, b, k, l)
                  /\ WithBuf(Record(h, t, f, b, k, l), v) = Record(h, t, f, v, k, l)
                  /\ WithPos(Record(h, t, f, b, k, l), v) = Record(h, t, f, b, v, l)
<1>1. ASSUME NEW v
      PROVE  /\ WithH(Record(h, t, f, b, k, l), v) = Record(v, t, f, b, k, l)
             /\ WithT(Record(h, t, f, b, k, l), v) = Record(h, v, f, b, k, l)
             /\ WithF(Record(h, t, f, b, k, l), v) = Record(h, t, v, b, k, l)
             /\ WithBuf(Record(h, t, f, b, k, l), v) = Record(h, t, f, v, k, l)
             /\ WithPos(Record(h, t, f, b, k, l), v) = Record(h, t, f, b, v, l)
  BY DEF Record, WithH, WithT, WithF, WithBuf, WithPos
<1>2. /\ Record(h, t, f, b, k, l).h = h /\ Record(h, t, f, b, k, l).t = t
      /\ Record(h, t, f, b, k, l).f = f /\ Record(h, t, f, b, k, l).buf = b
      /\ Record(h, t, f, b, k, l).bufPos = k /\ Record(h, t, f, b, k, l).lastNode = l
  BY DEF Record
<1>3. QED  BY <1>1, <1>2

LEMMA Fields ==
  ASSUME NEW h, NEW t, NEW b, NEW k, NEW l
  PROVE  /\ Node(h, t, b, k, l).h = h /\ Node(h, t, b, k, l).t = t
         /\ Node(h, t, b, k, l).f = Open /\ Node(h, t, b, k, l).buf = b
         /\ Node(h, t, b, k, l).bufPos = k /\ Node(h, t, b, k, l).lastNode = l
         /\ \A v : /\ WithH(Node(h, t, b, k, l), v) = Node(v, t, b, k, l)
                  /\ WithT(Node(h, t, b, k, l), v) = Node(h, v, b, k, l)
                  /\ WithBuf(Node(h, t, b, k, l), v) = Node(h, t, v, k, l)
                  /\ WithPos(Node(h, t, b, k, l), v) = Node(h, t, b, v, l)
BY RecordFields DEF Node

(* What the functions assign to.                                           *)
LEMMA Assigned ==
  ASSUME NEW p
  PROVE  /\ \A data : Copied(p, data) = WithBuf(p, [i \in DOMAIN p.buf |->
              IF i \in p.bufPos..(p.bufPos + Len(data) - 1) THEN data[i - p.bufPos + 1]
              ELSE p.buf[i]])
         /\ Blake2s_Compress(p) = WithH(p, Append(p.h, <<p.buf, p.t, p.f>>))
         /\ \A data : Taken([node |-> p, data |-> data]) =
              IF data = <<>> THEN [node |-> p, data |-> data]
              ELSE IF Fits(Len(data), BlockSize - p.bufPos)
              THEN [node |-> WithPos(Copied(p, data), p.bufPos + Len(data)), data |-> <<>>]
              ELSE [node |-> WithPos(Blake2s_Compress(Blake2s_Increment_Counter(
                               Copied(p, SubSeq(data, 1, BlockSize - p.bufPos)), BlockSize)), 0),
                    data |-> SubSeq(data, (BlockSize - p.bufPos) + 1, Len(data))]
<1>1. \A data : Copied(p, data) = WithBuf(p, [i \in DOMAIN p.buf |->
              IF i \in p.bufPos..(p.bufPos + Len(data) - 1) THEN data[i - p.bufPos + 1]
              ELSE p.buf[i]])
  BY DEF Copied, WithBuf
<1>2. Blake2s_Compress(p) = WithH(p, Append(p.h, <<p.buf, p.t, p.f>>))
  BY DEF Blake2s_Compress, WithH
<1>3. ASSUME NEW data
      PROVE  Taken([node |-> p, data |-> data]) =
              IF data = <<>> THEN [node |-> p, data |-> data]
              ELSE IF Fits(Len(data), BlockSize - p.bufPos)
              THEN [node |-> WithPos(Copied(p, data), p.bufPos + Len(data)), data |-> <<>>]
              ELSE [node |-> WithPos(Blake2s_Compress(Blake2s_Increment_Counter(
                               Copied(p, SubSeq(data, 1, BlockSize - p.bufPos)), BlockSize)), 0),
                    data |-> SubSeq(data, (BlockSize - p.bufPos) + 1, Len(data))]
  BY DEF Taken, WithPos
<1>4. QED  BY <1>1, <1>2, <1>3

(* The buffer after a copy of what comes next.                             *)
LEMMA CopiedIs ==
  ASSUME BlakeAssumption, NEW T, NEW e \in Seq(T), NEW n \in Nat, NEW x \in 0..Len(e),
         NEW z \in x..Len(e), z - n * BlockSize <= BlockSize,
         NEW p, NEW b, NEW place, NEW last, Holds(p, b, place, last, e, x, n)
  PROVE  \E a : /\ Copied(p, SubSeq(e, x + 1, z)) =
                     Node(Chain(place, e, n), Counter(n * BlockSize), a, x - n * BlockSize, last)
                /\ Begins(a, e, z, n)
<1> DEFINE data == SubSeq(e, x + 1, z)
           B == BlockSize
           m == n * B
           k == x - m
           a == [i \in 0..(B - 1) |->
                  IF i \in k..(k + Len(data) - 1) THEN data[i - k + 1] ELSE b[i]]
           c == Chain(place, e, n)
           t == Counter(m)
<1>1. /\ B \in Nat \ {0} /\ m \in Nat /\ k \in 0..B /\ x \in Nat /\ z \in Nat /\ x <= z
      /\ z - m <= B
  <2>1. B \in Nat \ {0}
    BY Sizes
  <2>2. m \in Nat /\ k \in 0..B
    BY <2>1, TimesKeepsOrder DEF Holds
  <2>3. x \in Nat /\ z \in Nat /\ x <= z
    OBVIOUS
  <2>4. QED  BY <2>1, <2>2, <2>3
<1>2. /\ p = Node(c, t, b, k, last)
      /\ b = [i \in 0..(B - 1) |-> b[i]]
      /\ \A i \in 0..(B - 1) : i < k => b[i] = e[m + i + 1]
  BY DEF Holds, Begins
<1>3. Len(data) = z - x /\ \A i \in 1..(z - x) : data[i] = e[x + i]
  BY PartIs
<1> HIDE DEF c, t, data
<1>4. Copied(p, data) = Node(c, t, a, k, last)
  <2>1. p.bufPos = k /\ p.buf = b
    BY <1>2, Fields
  <2>2. DOMAIN b = 0..(B - 1)
    BY <1>2
  <2>3. Copied(p, data) = WithBuf(p, a)
    BY <2>1, <2>2, Assigned
  <2> HIDE DEF a, k
  <2>4. QED  BY <1>2, <2>3, Fields
<1>5. ASSUME NEW i \in 0..(B - 1), i < z - m PROVE a[i] = e[m + i + 1]
  <2> HIDE DEF m, B
  <2>1. CASE i \in k..(k + Len(data) - 1)
    <3>1. i - k + 1 \in 1..(z - x) /\ x + (i - k + 1) = m + i + 1
      BY <1>1, <1>3, <1>5, <2>1
    <3>2. a[i] = data[i - k + 1]
      BY <2>1
    <3>3. data[i - k + 1] = e[x + (i - k + 1)]
      BY <1>3, <3>1
    <3>4. QED  BY <3>1, <3>2, <3>3
  <2>2. CASE ~(i \in k..(k + Len(data) - 1))
    <3>1. i < k
      <4>1. k + Len(data) - 1 = (z - m) - 1
        BY <1>1, <1>3
      <4>2. ~(i \in k..((z - m) - 1))
        BY <2>2, <4>1
      <4> HIDE DEF k
      <4>3. QED  BY <1>1, <1>5, <4>2
    <3>2. a[i] = b[i]
      BY <2>2
    <3>3. QED  BY <1>2, <3>1, <3>2
  <2>3. QED  BY <2>1, <2>2
<1>6. a = [i \in 0..(B - 1) |-> a[i]]
  OBVIOUS
<1> HIDE DEF a
<1>7. Begins(a, e, z, n)
  BY <1>5, <1>6 DEF Begins
<1>8. QED  BY <1>4, <1>7 DEF c, t, data

(* A turn that takes the rest, and one that completes a block.             *)
LEMMA TakenRest ==
  ASSUME BlakeAssumption, NEW T, NEW e \in Seq(T), NEW n \in Nat, NEW x \in 0..Len(e),
         NEW y \in x..Len(e), x # y, y - n * BlockSize <= BlockSize,
         NEW p, NEW b, NEW place, NEW last, Holds(p, b, place, last, e, x, n),
         NEW s, s = [node |-> p, data |-> SubSeq(e, x + 1, y)]
  PROVE  \E g, a : Taken(s) = [node |-> g, data |-> <<>>] /\ Holds(g, a, place, last, e, y, n)
<1> DEFINE B == BlockSize
           m == n * B
           c == Chain(place, e, n)
           t == Counter(m)
           data == SubSeq(e, x + 1, y)
<1>1. B \in Nat \ {0} /\ m \in Nat /\ x \in Nat /\ y \in Nat /\ x < y /\ y - m <= B
  <2>1. B \in Nat \ {0}
    BY Sizes
  <2>2. m \in Nat
    BY <2>1, TimesKeepsOrder
  <2>3. x \in Nat /\ y \in Nat /\ x < y
    OBVIOUS
  <2>4. QED  BY <2>1, <2>2, <2>3
<1>2. p = Node(c, t, b, x - m, last) /\ x - m \in 0..B
  BY DEF Holds
<1>3. Len(data) = y - x
  BY PartIs
<1>4. PICK a : Copied(p, data) = Node(c, t, a, x - m, last) /\ Begins(a, e, y, n)
  BY CopiedIs
<1>5. s.node = p /\ s.data = data
  OBVIOUS
<1> HIDE DEF c, t, data, m, B
<1>6. p.bufPos = x - m
  BY <1>2, Fields
<1>7. data # <<>> /\ Fits(Len(data), B - p.bufPos) /\ p.bufPos + Len(data) = y - m
  <2>1. Len(data) > 0 /\ Len(data) <= B - p.bufPos /\ p.bufPos + Len(data) = y - m
    BY <1>1, <1>2, <1>3, <1>6
  <2>2. QED  BY <2>1 DEF Fits
<1> DEFINE g == Node(c, t, a, y - m, last)
<1>8. Taken(s) = [node |-> g, data |-> <<>>]
  <2>1. WithPos(Copied(p, data), y - m) = g
    BY <1>4, Fields
  <2>2. s = [node |-> p, data |-> data]
    BY DEF data
  <2> HIDE DEF g
  <2>3. QED  BY <1>7, <2>1, <2>2, Assigned DEF B
<1> HIDE DEF g
<1>10. y - m \in 0..B
  BY <1>1, <1>2
<1>11. Holds(g, a, place, last, e, y, n)
  <2>1. g = Node(Chain(place, e, n), Counter(n * BlockSize), a, y - n * BlockSize, last)
    BY DEF g, c, t, m, B
  <2>2. y - n * BlockSize \in 0..BlockSize
    BY <1>10 DEF m, B
  <2>3. QED  BY <1>4, <2>1, <2>2 DEF Holds
<1>12. QED  BY <1>8, <1>11

LEMMA TakenBlock ==
  ASSUME BlakeAssumption, NEW T, NEW e \in Seq(T), NEW n \in Nat, NEW x \in 0..Len(e),
         NEW y \in x..Len(e), x # y, y - n * BlockSize > BlockSize,
         NEW p, NEW b, NEW place, NEW last, Holds(p, b, place, last, e, x, n),
         NEW s, s = [node |-> p, data |-> SubSeq(e, x + 1, y)]
  PROVE  \E g, a : \E z \in x..y : /\ z = (n + 1) * BlockSize
                                    /\ Taken(s) = [node |-> g, data |-> SubSeq(e, z + 1, y)]
                                    /\ Holds(g, a, place, last, e, z, n + 1)
<1> DEFINE B == BlockSize
           m == n * B
           z == m + B
           c == Chain(place, e, n)
           t == Counter(m)
           data == SubSeq(e, x + 1, y)
           part == SubSeq(e, x + 1, z)
<1>1. /\ B \in Nat \ {0} /\ m \in Nat /\ x \in Nat /\ y \in Nat /\ x < y /\ y - m > B
      /\ y <= Len(e) /\ Len(e) \in Nat
  <2>1. B \in Nat \ {0}
    BY Sizes
  <2>2. m \in Nat
    BY <2>1, TimesKeepsOrder
  <2>3. x \in Nat /\ y \in Nat /\ x < y /\ y <= Len(e) /\ Len(e) \in Nat
    OBVIOUS
  <2>4. QED  BY <2>1, <2>2, <2>3
<1>2. p = Node(c, t, b, x - m, last) /\ x - m \in 0..B
  BY DEF Holds
<1>3. z = (n + 1) * B /\ (n + 1) - 1 = n
  <2>1. B \in Nat
    BY <1>1
  <2>2. QED  BY <2>1, TimesKeepsOrder
<1> HIDE DEF m, B
<1>4. z \in x..y /\ z \in x..Len(e) /\ z - m <= B /\ z \in Nat
  BY <1>1, <1>2
<1>5. Len(data) = y - x
  BY PartIs
<1>6. PICK a : Copied(p, part) = Node(c, t, a, x - m, last) /\ Begins(a, e, z, n)
  BY <1>4, CopiedIs DEF m, B
<1>7. SubSeq(data, 1, z - x) = part /\ SubSeq(data, (z - x) + 1, Len(data)) = SubSeq(e, z + 1, y)
  BY <1>4, PartOfPart
<1>8. s.node = p /\ s.data = data
  OBVIOUS
<1>9. B - (x - m) = z - x
  BY <1>1
<1> HIDE DEF c, t, data, part, z
<1>10. p.bufPos = x - m
  BY <1>2, Fields
<1>11. data # <<>> /\ ~Fits(Len(data), z - x)
  <2>1. Len(data) > 0 /\ ~(Len(data) <= z - x)
    BY <1>1, <1>4, <1>5 DEF z
  <2>2. QED  BY <2>1 DEF Fits
<1> DEFINE u == Counter(m + B)
           q == Blake2s_Compress(Blake2s_Increment_Counter(Copied(p, part), B))
<1>12. q = Node(Append(c, <<a, u, Open>>), u, a, x - m, last)
  <2> DEFINE f == Node(c, t, a, x - m, last)
             g == Node(c, u, a, x - m, last)
  <2>1. f.t = Counter(m)
    BY Fields DEF t
  <2>2. B \in 0..WordMod
    BY Sizes DEF B
  <2>3. \A w : WithT(f, w) = Node(c, w, a, x - m, last)
    BY Fields
  <2>4. Blake2s_Increment_Counter(f, B) = WithT(f, u)
    <3> HIDE DEF f
    <3>1. QED  BY <1>1, <2>1, <2>2, CounterMoves
  <2>5. Blake2s_Increment_Counter(f, B) = g
    BY <2>3, <2>4
  <2>6. g.buf = a /\ g.t = u /\ g.f = Open /\ g.h = c
    BY Fields
  <2>7. \A w : WithH(g, w) = Node(w, u, a, x - m, last)
    BY Fields
  <2> HIDE DEF g, u
  <2>8. Blake2s_Compress(g) = WithH(g, Append(c, <<a, u, Open>>))
    BY <2>6, Assigned
  <2>9. q = Blake2s_Compress(g)
    BY <1>6, <2>5
  <2>10. QED  BY <2>7, <2>8, <2>9
<1>13. <<a, u, Open>> = Blk(e, n + 1)
  <2>1. a = [i \in 0..(B - 1) |-> e[m + i + 1]]
    <3>1. \A i \in 0..(B - 1) : i < z - m
      BY <1>1 DEF z
    <3>2. QED  BY <1>6, <3>1 DEF Begins, m, B
  <2>2. u = Counter((n + 1) * B)
    BY <1>3 DEF z
  <2>3. QED  BY <1>3, <2>1, <2>2 DEF Blk, m, B
<1>14. q = Node(Chain(place, e, n + 1), u, a, x - m, last)
  <2>1. Append(c, Blk(e, n + 1)) = Chain(place, e, n + 1)
    BY ChainGrows DEF c
  <2> HIDE DEF q, u
  <2>2. QED  BY <1>12, <1>13, <2>1
<1> HIDE DEF q
<1> DEFINE g == Node(Chain(place, e, n + 1), u, a, 0, last)
<1>15. WithPos(q, 0) = g /\ g.buf = a
  BY <1>14, Fields
<1> HIDE DEF g
<1>16. Taken(s) = [node |-> g, data |-> SubSeq(e, z + 1, y)]
  <2>1. SubSeq(data, 1, B - p.bufPos) = part
    BY <1>7, <1>9, <1>10
  <2>2. SubSeq(data, (B - p.bufPos) + 1, Len(data)) = SubSeq(e, z + 1, y)
    BY <1>7, <1>9, <1>10
  <2>3. ~Fits(Len(data), B - p.bufPos)
    BY <1>9, <1>10, <1>11
  <2>4. s = [node |-> p, data |-> data]
    BY DEF data
  <2>5. QED  BY <1>11, <1>15, <2>1, <2>2, <2>3, <2>4, Assigned DEF q, B
<1>17. Holds(g, a, place, last, e, z, n + 1)
  <2> DEFINE w == (n + 1) * B
  <2>1. w = z /\ z - w = 0 /\ 0 \in 0..B
    BY <1>1, <1>3, <1>4
  <2>5. u = Counter(w)
    BY <2>1 DEF z
  <2>2. \A i \in 0..(B - 1) : ~(i < 0)
    BY <1>1
  <2> HIDE DEF w
  <2>3. g = Node(Chain(place, e, n + 1), Counter(w), a, z - w, last)
    BY <2>1, <2>5 DEF g
  <2>4. Begins(a, e, z, n + 1)
    <3>1. a = [i \in 0..(B - 1) |-> a[i]]
      BY <1>6 DEF Begins, B
    <3>2. \A i \in 0..(B - 1) : i < z - w => a[i] = e[w + i + 1]
      BY <2>1, <2>2
    <3>3. QED  BY <3>1, <3>2 DEF Begins, w, B
  <2>6. z - w \in 0..B
    BY <2>1
  <2>7. QED  BY <2>3, <2>4, <2>6 DEF Holds, w, B
<1>18. QED  BY <1>3, <1>4, <1>16, <1>17 DEF B

-----------------------------------------------------------------------------
(* The loops are functions of the number of turns; each is the only one    *)
(* that begins as it does and goes on by its turns.                        *)
Turn(loop, s, k) ==
  CASE loop[1] = "take" -> Taken(s)
    [] loop[1] = "deal" -> DealtBlock(s)
    [] loop[1] = "root" -> Blake2s_Update(s, Blake2s_Final(loop[2][k - 1]))
Runs(f, N, init, loop) ==
  /\ f[0] = init
  /\ \A k \in Nat : k + 1 <= N => f[k + 1] = Turn(loop, f[k], k + 1)

Loop(f, N, init, loop) == f = [k \in 0..N |-> IF k = 0 THEN init ELSE Turn(loop, f[k - 1], k)]

LEMMA LoopExists ==
  ASSUME NEW N \in Nat, NEW init, NEW loop
  PROVE  \E f : Loop(f, N, init, loop)
<1> DEFINE Step(g, k) == IF k = 0 THEN init ELSE Turn(loop, g[k - 1], k)
           Right(m, g) == \A k \in 0..N : k <= m => g[k] = Step(g, k)
           Good == {m \in Nat : \E g : Right(m, g)}
<1>1. 0 \in Good
  <2> DEFINE g == [k \in 0..N |-> init]
  <2>1. Right(0, g)
    OBVIOUS
  <2>2. QED  BY <2>1
<1>2. ASSUME NEW m \in Nat, m \in Good PROVE m + 1 \in Good
  <2>1. PICK g : Right(m, g)
    BY <1>2
  <2> DEFINE h == [k \in 0..N |-> Step(g, k)]
  <2>2. ASSUME NEW k \in 0..N, k <= m + 1 PROVE h[k] = Step(h, k)
    <3>1. CASE k = 0
      BY <3>1
    <3>2. CASE k # 0
      <4>1. k - 1 \in 0..N /\ k - 1 <= m
        BY <2>2, <3>2
      <4>2. h[k - 1] = g[k - 1]
        BY <2>1, <4>1
      <4>3. h[k] = Step(g, k)
        OBVIOUS
      <4> HIDE DEF h
      <4>4. QED  BY <3>2, <4>2, <4>3
    <3>3. QED  BY <3>1, <3>2
  <2>3. Right(m + 1, h)
    BY <2>2
  <2> HIDE DEF h, Right
  <2>4. QED  BY <2>3
<1>3. Nat \subseteq Good
  <2> HIDE DEF Good
  <2>1. QED  BY <1>1, <1>2, NumberInduction
<1>4. PICK g : Right(N, g)
  BY <1>3
<1> DEFINE h == [k \in 0..N |-> g[k]]
<1>5. ASSUME NEW k \in 0..N PROVE h[k] = Step(h, k)
  <2>1. g[k] = Step(g, k) /\ h[k] = g[k]
    BY <1>4
  <2>2. k # 0 => k - 1 \in 0..N
    OBVIOUS
  <2>3. k # 0 => h[k - 1] = g[k - 1]
    BY <2>2
  <2> HIDE DEF h
  <2>4. QED  BY <2>1, <2>3
<1>6. h = [k \in 0..N |-> Step(h, k)]
  BY <1>5
<1> HIDE DEF h
<1>7. Loop(h, N, init, loop)
  BY <1>6 DEF Loop
<1>8. QED  BY <1>7

LEMMA LoopRuns ==
  ASSUME NEW N \in Nat, NEW init, NEW loop, NEW f, Loop(f, N, init, loop)
  PROVE  Runs(f, N, init, loop)
<1>1. f = [k \in 0..N |-> IF k = 0 THEN init ELSE Turn(loop, f[k - 1], k)]
  BY DEF Loop
<1>2. f[0] = init
  <2>1. 0 \in 0..N
    OBVIOUS
  <2>2. QED  BY <1>1, <2>1
<1>3. ASSUME NEW k \in Nat, k + 1 <= N PROVE f[k + 1] = Turn(loop, f[k], k + 1)
  <2>1. k + 1 \in 0..N /\ k + 1 # 0 /\ (k + 1) - 1 = k
    BY <1>3
  <2>2. QED  BY <1>1, <2>1
<1>4. QED  BY <1>2, <1>3 DEF Runs

Taking(p, data) ==
  CHOOSE f : f = [k \in 0..(Len(data) + 1) |->
                    IF k = 0 THEN [node |-> p, data |-> data] ELSE Taken(f[k - 1])]
Dealing(leaves, pos, data) ==
  CHOOSE f : f = [k \in 0..Len(data) |->
                    IF k = 0 THEN [leaves |-> leaves, pos |-> pos, data |-> data]
                    ELSE DealtBlock(f[k - 1])]
Rooting(leaves) ==
  CHOOSE f : f = [k \in 0..Degree |->
                    IF k = 0 THEN [Blake2sp_Init_Spec(0, 1) EXCEPT !.lastNode = TRUE]
                    ELSE Blake2s_Update(f[k - 1], Blake2s_Final(leaves[k - 1]))]

LEMMA LoopsChosen ==
  /\ \A p, data : Blake2s_Update(p, data) = Taking(p, data)[Len(data) + 1].node
  /\ \A leaves, pos, data : Dealt(leaves, pos, data) = Dealing(leaves, pos, data)[Len(data)]
  /\ \A leaves : Root(leaves) = Rooting(leaves)[Degree]
<1>1. \A p, data : Blake2s_Update(p, data) = Taking(p, data)[Len(data) + 1].node
  BY DEF Blake2s_Update, Taking
<1>2. \A leaves, pos, data : Dealt(leaves, pos, data) = Dealing(leaves, pos, data)[Len(data)]
  BY DEF Dealt, Dealing
<1>3. \A leaves : Root(leaves) = Rooting(leaves)[Degree]
  BY DEF Root, Rooting
<1>4. QED  BY <1>1, <1>2, <1>3

LEMMA TurnIs ==
  /\ \A s, k : Turn(<<"take">>, s, k) = Taken(s)
  /\ \A s, k : Turn(<<"deal">>, s, k) = DealtBlock(s)
  /\ \A leaves, s, k : Turn(<<"root", leaves>>, s, k) =
                         Blake2s_Update(s, Blake2s_Final(leaves[k - 1]))
BY DEF Turn

LEMMA LoopsRun ==
  /\ \A p, data : Len(data) \in Nat =>
       Runs(Taking(p, data), Len(data) + 1, [node |-> p, data |-> data], <<"take">>)
  /\ \A leaves, pos, data : Len(data) \in Nat =>
       Runs(Dealing(leaves, pos, data), Len(data),
            [leaves |-> leaves, pos |-> pos, data |-> data], <<"deal">>)
  /\ \A leaves : Degree \in Nat =>
       Runs(Rooting(leaves), Degree, [Blake2sp_Init_Spec(0, 1) EXCEPT !.lastNode = TRUE],
            <<"root", leaves>>)
<1>1. ASSUME NEW p, NEW data, Len(data) \in Nat
      PROVE  Runs(Taking(p, data), Len(data) + 1, [node |-> p, data |-> data], <<"take">>)
  <2> DEFINE init == [node |-> p, data |-> data]
             N == Len(data) + 1
             f == Taking(p, data)
  <2>1. N \in Nat
    BY <1>1
  <2> DEFINE Row(g) == [k \in 0..N |-> IF k = 0 THEN init ELSE Taken(g[k - 1])]
             Same(g) == [k \in 0..N |-> IF k = 0 THEN init ELSE Turn(<<"take">>, g[k - 1], k)]
  <2>2. f = CHOOSE g : g = Row(g)
    BY DEF Taking
  <2> HIDE DEF init, N, f
  <2>3. \A g : Row(g) = Same(g)
    BY TurnIs
  <2>4. PICK g : g = Same(g)
    <3>1. \E g : Loop(g, N, init, <<"take">>)
      BY <2>1, LoopExists
    <3>2. QED  BY <3>1 DEF Loop
  <2>5. g = Row(g)
    BY <2>3, <2>4
  <2>6. f = Row(f)
    <3> HIDE DEF Row
    <3>1. QED  BY <2>2, <2>5
  <2>7. f = Same(f)
    BY <2>3, <2>6
  <2>8. Runs(f, N, init, <<"take">>)
    <3>1. Loop(f, N, init, <<"take">>)
      BY <2>7 DEF Loop
    <3>2. QED  BY <2>1, <3>1, LoopRuns
  <2>9. QED  BY <2>8 DEF init, N, f
<1>2. ASSUME NEW leaves, NEW pos, NEW data, Len(data) \in Nat
      PROVE  Runs(Dealing(leaves, pos, data), Len(data),
                  [leaves |-> leaves, pos |-> pos, data |-> data], <<"deal">>)
  <2> DEFINE init == [leaves |-> leaves, pos |-> pos, data |-> data]
             N == Len(data)
             f == Dealing(leaves, pos, data)
  <2>1. N \in Nat
    BY <1>2
  <2> DEFINE Row(g) == [k \in 0..N |-> IF k = 0 THEN init ELSE DealtBlock(g[k - 1])]
             Same(g) == [k \in 0..N |-> IF k = 0 THEN init ELSE Turn(<<"deal">>, g[k - 1], k)]
  <2>2. f = CHOOSE g : g = Row(g)
    BY DEF Dealing
  <2> HIDE DEF init, N, f
  <2>3. \A g : Row(g) = Same(g)
    BY TurnIs
  <2>4. PICK g : g = Same(g)
    <3>1. \E g : Loop(g, N, init, <<"deal">>)
      BY <2>1, LoopExists
    <3>2. QED  BY <3>1 DEF Loop
  <2>5. g = Row(g)
    BY <2>3, <2>4
  <2>6. f = Row(f)
    <3> HIDE DEF Row
    <3>1. QED  BY <2>2, <2>5
  <2>7. f = Same(f)
    BY <2>3, <2>6
  <2>8. Runs(f, N, init, <<"deal">>)
    <3>1. Loop(f, N, init, <<"deal">>)
      BY <2>7 DEF Loop
    <3>2. QED  BY <2>1, <3>1, LoopRuns
  <2>9. QED  BY <2>8 DEF init, N, f
<1>3. ASSUME NEW leaves, Degree \in Nat
      PROVE  Runs(Rooting(leaves), Degree, [Blake2sp_Init_Spec(0, 1) EXCEPT !.lastNode = TRUE],
                  <<"root", leaves>>)
  <2> DEFINE init == [Blake2sp_Init_Spec(0, 1) EXCEPT !.lastNode = TRUE]
             N == Degree
             f == Rooting(leaves)
  <2>1. N \in Nat
    BY <1>3
  <2> DEFINE Row(g) == [k \in 0..N |-> IF k = 0 THEN init ELSE Blake2s_Update(g[k - 1], Blake2s_Final(leaves[k - 1]))]
             Same(g) == [k \in 0..N |-> IF k = 0 THEN init ELSE Turn(<<"root", leaves>>, g[k - 1], k)]
  <2>2. f = CHOOSE g : g = Row(g)
    BY DEF Rooting
  <2> HIDE DEF init, N, f
  <2>3. \A g : Row(g) = Same(g)
    BY TurnIs
  <2>4. PICK g : g = Same(g)
    <3>1. \E g : Loop(g, N, init, <<"root", leaves>>)
      BY <2>1, LoopExists
    <3>2. QED  BY <3>1 DEF Loop
  <2>5. g = Row(g)
    BY <2>3, <2>4
  <2>6. f = Row(f)
    <3> HIDE DEF Row
    <3>1. QED  BY <2>2, <2>5
  <2>7. f = Same(f)
    BY <2>3, <2>6
  <2>8. Runs(f, N, init, <<"root", leaves>>)
    <3>1. Loop(f, N, init, <<"root", leaves>>)
      BY <2>7 DEF Loop
    <3>2. QED  BY <2>1, <3>1, LoopRuns
  <2>9. QED  BY <2>8 DEF init, N, f
<1>4. QED  BY <1>1, <1>2, <1>3

-----------------------------------------------------------------------------
(* After k turns of an update a node holds a beginning of the data, as     *)
(* long as k or nearly so, and the block that all of it ends with is in    *)
(* the buffer.                                                             *)
AlongAt(s, k, place, last, e, x, y, z, n) ==
  /\ \E q, b : s = [node |-> q, data |-> SubSeq(e, z + 1, y)] /\ Holds(q, b, place, last, e, z, n)
  /\ z = y => ((z = 0 /\ n = 0) \/ n * BlockSize < z)
  /\ z = y \/ k <= z - x \/ (z - n * BlockSize < BlockSize /\ k <= (z - x) + 1)
Along(s, k, place, last, e, x, y) ==
  \E z \in x..y : \E n \in Nat : AlongAt(s, k, place, last, e, x, y, z, n)

LEMMA AlongGoes ==
  ASSUME BlakeAssumption, NEW T, NEW e \in Seq(T), NEW x \in 0..Len(e), NEW y \in x..Len(e),
         NEW place, NEW last, NEW s, NEW k \in Nat, Along(s, k, place, last, e, x, y)
  PROVE  Along(Taken(s), k + 1, place, last, e, x, y)
<1> DEFINE B == BlockSize
<1>1. PICK z \in x..y, n \in Nat : AlongAt(s, k, place, last, e, x, y, z, n)
  BY DEF Along
<1> DEFINE m == n * B
           data == SubSeq(e, z + 1, y)
<1>2. PICK q, b : s = [node |-> q, data |-> data] /\ Holds(q, b, place, last, e, z, n)
  BY <1>1 DEF AlongAt
<1>3. /\ z = y => ((z = 0 /\ n = 0) \/ m < z)
      /\ z = y \/ k <= z - x \/ (z - m < B /\ k <= (z - x) + 1)
  BY <1>1 DEF AlongAt
<1>4. /\ B \in Nat \ {0} /\ m \in Nat /\ x \in Nat /\ y \in Nat /\ z \in Nat
      /\ x <= z /\ z <= y /\ y <= Len(e) /\ (n + 1) * B = m + B /\ Len(e) \in Nat
  <2>1. B \in Nat \ {0}
    BY Sizes
  <2>2. m \in Nat /\ (n + 1) * B = m + B
    BY <2>1, TimesKeepsOrder
  <2>3. x \in Nat /\ y \in Nat /\ z \in Nat /\ x <= z /\ z <= y /\ y <= Len(e) /\ Len(e) \in Nat
    OBVIOUS
  <2>4. QED  BY <2>1, <2>2, <2>3
<1>5. z - m \in 0..B
  BY <1>2 DEF Holds
<1>6. z \in 0..Len(e) /\ y \in z..Len(e)
  BY <1>4
<1>7. CASE z = y
  <2>1. data = <<>>
    BY <1>4, <1>7, SubSeqEmpty
  <2>2. Taken(s) = s
    <3>1. s.data = <<>>
      BY <1>2, <2>1
    <3>2. QED  BY <3>1 DEF Taken
  <2>3. AlongAt(s, k + 1, place, last, e, x, y, z, n)
    <3>1. \E c, d : s = [node |-> c, data |-> SubSeq(e, z + 1, y)] /\ Holds(c, d, place, last, e, z, n)
      BY <1>2
    <3>2. QED  BY <1>3, <1>7, <3>1 DEF AlongAt
  <2>4. QED  BY <2>2, <2>3 DEF Along
<1>8. CASE z # y /\ y - m <= B
  <2>1. PICK g, a : Taken(s) = [node |-> g, data |-> <<>>] /\ Holds(g, a, place, last, e, y, n)
    BY <1>2, <1>6, <1>8, TakenRest
  <2>2. SubSeq(e, y + 1, y) = <<>>
    BY <1>4, SubSeqEmpty
  <2>3. m < y
    BY <1>4, <1>5, <1>8
  <2>4. AlongAt(Taken(s), k + 1, place, last, e, x, y, y, n)
    <3>1. \E c, d : /\ Taken(s) = [node |-> c, data |-> SubSeq(e, y + 1, y)]
                    /\ Holds(c, d, place, last, e, y, n)
      BY <2>1, <2>2
    <3>2. QED  BY <2>3, <3>1 DEF AlongAt
  <2>5. y \in x..y
    BY <1>4
  <2>6. QED  BY <2>4, <2>5 DEF Along
<1>9. CASE z # y /\ ~(y - m <= B)
  <2>1. y - m > B
    BY <1>4, <1>9
  <2>2. PICK g, a : \E w \in z..y : /\ w = (n + 1) * B
                                    /\ Taken(s) = [node |-> g, data |-> SubSeq(e, w + 1, y)]
                                    /\ Holds(g, a, place, last, e, w, n + 1)
    BY <1>2, <1>6, <1>9, <2>1, TakenBlock
  <2>3. PICK w \in z..y : /\ w = m + B
                          /\ Taken(s) = [node |-> g, data |-> SubSeq(e, w + 1, y)]
                          /\ Holds(g, a, place, last, e, w, n + 1)
    BY <1>4, <2>2
  <2>4. w # y /\ w - (m + B) < B
    BY <1>4, <2>1, <2>3
  <2>5. k + 1 <= (w - x) + 1
    BY <1>3, <1>4, <1>5, <1>9, <2>3
  <2>6. AlongAt(Taken(s), k + 1, place, last, e, x, y, w, n + 1)
    <3>1. \E c, d : /\ Taken(s) = [node |-> c, data |-> SubSeq(e, w + 1, y)]
                    /\ Holds(c, d, place, last, e, w, n + 1)
      BY <2>3
    <3>2. w - (n + 1) * BlockSize < BlockSize
      BY <1>4, <2>4
    <3>3. QED  BY <2>4, <2>5, <3>1, <3>2 DEF AlongAt
  <2>7. w \in x..y /\ n + 1 \in Nat
    BY <1>4, <2>3
  <2>8. QED  BY <2>6, <2>7 DEF Along
<1>10. QED  BY <1>7, <1>8, <1>9

(* A node that is given more has absorbed more, however much it is.        *)
LEMMA UpdateAbsorbs ==
  ASSUME BlakeAssumption, NEW T, NEW e \in Seq(T), NEW x \in 0..Len(e), NEW y \in x..Len(e),
         NEW p, NEW place, NEW last, Absorbed(p, place, last, e, x)
  PROVE  Absorbed(Blake2s_Update(p, SubSeq(e, x + 1, y)), place, last, e, y)
<1> DEFINE data == SubSeq(e, x + 1, y)
           N == Len(data) + 1
           f == Taking(p, data)
           Good == {k \in Nat : k <= N => Along(f[k], k, place, last, e, x, y)}
<1>1. Len(data) = y - x /\ x \in Nat /\ y \in Nat /\ x <= y
  BY PartIs
<1>2. Len(data) \in Nat /\ N \in Nat /\ N = (y - x) + 1
  BY <1>1
<1>3. Runs(f, N, [node |-> p, data |-> data], <<"take">>)
  <2> HIDE DEF data, f
  <2>1. QED  BY <1>2, LoopsRun DEF f
<1>4. f[0] = [node |-> p, data |-> data]
  BY <1>3 DEF Runs
<1>5. \A k \in Nat : k + 1 <= N => f[k + 1] = Taken(f[k])
  BY <1>3, TurnIs DEF Runs
<1>6. Blake2s_Update(p, data) = f[N].node
  BY LoopsChosen
<1> HIDE DEF f, N
<1>7. 0 \in Good
  <2>1. PICK n \in Nat : /\ \E b : Holds(p, b, place, last, e, x, n)
                         /\ ((x = 0 /\ n = 0) \/ n * BlockSize < x)
    BY DEF Absorbed
  <2>2. PICK b : Holds(p, b, place, last, e, x, n)
    BY <2>1
  <2>3. 0 <= x - x
    BY <1>1
  <2>4. \E q, d : f[0] = [node |-> q, data |-> SubSeq(e, x + 1, y)] /\ Holds(q, d, place, last, e, x, n)
    BY <1>4, <2>2
  <2>5. AlongAt(f[0], 0, place, last, e, x, y, x, n)
    BY <2>1, <2>3, <2>4 DEF AlongAt
  <2>6. x \in x..y
    BY <1>1
  <2>7. QED  BY <2>5, <2>6 DEF Along
<1>8. ASSUME NEW k \in Nat, k \in Good PROVE k + 1 \in Good
  <2> SUFFICES ASSUME k + 1 <= N PROVE Along(f[k + 1], k + 1, place, last, e, x, y)
    OBVIOUS
  <2>1. k <= N
    BY <1>2
  <2>2. Along(f[k], k, place, last, e, x, y)
    BY <1>8, <2>1
  <2>3. Along(Taken(f[k]), k + 1, place, last, e, x, y)
    BY <2>2, AlongGoes
  <2>4. QED  BY <1>5, <2>3
<1>9. Along(f[N], N, place, last, e, x, y)
  <2>1. Nat \subseteq Good
    <3> HIDE DEF Good
    <3>1. QED  BY <1>7, <1>8, NumberInduction
  <2>2. N \in Good /\ N <= N
    BY <1>2, <2>1
  <2>3. QED  BY <2>2
<1>10. PICK z \in x..y, n \in Nat : AlongAt(f[N], N, place, last, e, x, y, z, n)
  BY <1>9 DEF Along
<1>11. z = y
  <2>1. z = y \/ N <= z - x \/ N <= (z - x) + 1
    BY <1>10 DEF AlongAt
  <2>2. QED  BY <1>1, <1>2, <2>1
<1>12. PICK q, b : /\ f[N] = [node |-> q, data |-> SubSeq(e, z + 1, y)]
                   /\ Holds(q, b, place, last, e, z, n)
  BY <1>10 DEF AlongAt
<1>13. f[N].node = q
  BY <1>12
<1>14. (y = 0 /\ n = 0) \/ n * BlockSize < y
  BY <1>10, <1>11 DEF AlongAt
<1>15. Absorbed(q, place, last, e, y)
  BY <1>11, <1>12, <1>14 DEF Absorbed
<1>16. QED  BY <1>6, <1>13, <1>15

-----------------------------------------------------------------------------
(* The definition of the hash, block by block.                             *)
Count(e) == IF e = <<>> THEN 1 ELSE (Len(e) + BlockSize - 1) \div BlockSize
BlockOf(last, e, n, k) ==
  <<[i \in 0..(BlockSize - 1) |->
       IF (k - 1) * BlockSize + i + 1 <= Len(e) THEN e[(k - 1) * BlockSize + i + 1] ELSE Zero],
    Counter(IF k = n THEN Len(e) ELSE k * BlockSize),
    IF k = n THEN <<TRUE, last>> ELSE <<FALSE, FALSE>>>>

LEMMA DefinitionIs ==
  ASSUME NEW offset, NEW depth, NEW last, NEW e
  PROVE  Blake2s(offset, depth, last, e) = [i \in 1..DigestSize |->
           <<<< <<offset, depth>> >> \o [k \in 1..Count(e) |-> BlockOf(last, e, Count(e), k)], i>>]
BY DEF Blake2s, Count, BlockOf

LEMMA PlacedBefore ==
  ASSUME NEW n \in Nat, NEW g, g = [k \in 1..n |-> g[k]], NEW v
  PROVE  <<v>> \o g = [k \in 1..(n + 1) |-> IF k = 1 THEN v ELSE g[k - 1]]
<1> DEFINE T == {g[k] : k \in 1..n} \cup {v}
           a == <<v>>
           c == a \o g
<1>1. g \in Seq(T) /\ Len(g) = n
  <2>1. \A k \in 1..n : g[k] \in T
    OBVIOUS
  <2> HIDE DEF T
  <2>2. g \in [1..n -> T]
    BY <2>1
  <2>3. QED  BY <2>2
<1>2. a \in Seq(T) /\ Len(a) = 1 /\ a[1] = v
  <2>1. v \in T
    OBVIOUS
  <2> HIDE DEF T
  <2>2. QED  BY <2>1
<1> HIDE DEF T, a
<1>3. /\ c \in Seq(T) /\ Len(c) = 1 + n
      /\ \A k \in 1..(1 + n) : c[k] = IF k <= 1 THEN a[k] ELSE g[k - 1]
  <2>1. /\ c \in Seq(T) /\ Len(c) = Len(a) + Len(g)
        /\ \A k \in 1..(Len(a) + Len(g)) : c[k] = IF k <= Len(a) THEN a[k] ELSE g[k - Len(a)]
    BY <1>1, <1>2, ConcatProperties
  <2> HIDE DEF c
  <2>2. QED  BY <1>1, <1>2, <2>1
<1> HIDE DEF c
<1>4. ASSUME NEW k \in 1..(n + 1) PROVE c[k] = IF k = 1 THEN v ELSE g[k - 1]
  <2>1. k \in 1..(1 + n) /\ (k <= 1 <=> k = 1)
    OBVIOUS
  <2>2. QED  BY <1>2, <1>3, <2>1
<1>5. c = [k \in 1..(n + 1) |-> c[k]]
  BY <1>3
<1>6. QED  BY <1>4, <1>5 DEF c, a

Cleared(b, k) == [j \in DOMAIN b |-> IF j >= k THEN Zero ELSE b[j]]
Digested(h) == [i \in 1..DigestSize |-> <<h, i>>]

(* What the last call compresses.                                          *)
LEMMA FinalForm ==
  ASSUME BlakeAssumption, NEW c, NEW m \in Nat, NEW b, NEW k \in 0..BlockSize, NEW last
  PROVE  Blake2s_Final(Node(c, Counter(m), b, k, last)) =
           Digested(Append(c, <<Cleared(b, k), Counter(m + k), Closed(last)>>))
<1> DEFINE p == Node(c, Counter(m), b, k, last)
           t == Counter(m + k)
           q == Node(c, t, b, k, last)
           fl == Closed(last)
           w == Cleared(b, k)
           r == WithBuf(WithF(q, fl), w)
           h == Append(c, <<w, t, fl>>)
<1>1. p.t = Counter(m) /\ p.buf = b /\ p.bufPos = k /\ p.lastNode = last
  BY Fields
<1>2. Blake2s_Increment_Counter(p, k) = q
  <2>1. k \in 0..WordMod
    BY Sizes
  <2>2. WithT(p, t) = q
    BY Fields
  <2> HIDE DEF p
  <2>3. Blake2s_Increment_Counter(p, k) = WithT(p, t)
    BY <1>1, <2>1, CounterMoves
  <2>4. QED  BY <2>2, <2>3
<1> HIDE DEF p
<1>3. Wiped(p) = w
  BY <1>1 DEF Wiped, Cleared
<1>4. q = Record(c, t, Open, b, k, last)
  BY DEF Node
<1> HIDE DEF q, fl, w, t
<1>5. r = Record(c, t, fl, w, k, last)
  BY <1>4, RecordFields
<1> HIDE DEF r
<1>6. r.h = c /\ r.buf = w /\ r.t = t /\ r.f = fl
  <2> DEFINE v == Record(c, t, fl, w, k, last)
  <2>1. v.h = c /\ v.buf = w /\ v.t = t /\ v.f = fl
    BY RecordFields
  <2> HIDE DEF v
  <2>2. r = v
    BY <1>5 DEF v
  <2>3. QED  BY <2>1, <2>2
<1>7. Blake2s_Compress(r) = WithH(r, h)
  BY <1>6, Assigned
<1> HIDE DEF h
<1>8. Blake2s_Compress(r) = Record(h, t, fl, w, k, last)
  BY <1>5, <1>7, RecordFields
<1>9. Record(h, t, fl, w, k, last).h = h
  BY RecordFields
<1>10. Blake2s_Final(p) = Digested(Blake2s_Compress(WithBuf(WithF(
          Blake2s_Increment_Counter(p, p.bufPos), <<TRUE, p.lastNode>>), Wiped(p))).h)
  BY DEF Blake2s_Final, WithBuf, WithF, Digested
<1>11. WithBuf(WithF(Blake2s_Increment_Counter(p, p.bufPos), <<TRUE, p.lastNode>>), Wiped(p)) = r
  BY <1>1, <1>2, <1>3 DEF fl, r, Closed
<1>12. Blake2s_Final(p) = Digested(h)
  BY <1>8, <1>9, <1>10, <1>11
<1>13. QED  BY <1>12 DEF p, h, w, t, fl

(* The digest of a node is that of all it has absorbed.                    *)
LEMMA FinalIs ==
  ASSUME BlakeAssumption, NEW T, NEW e \in Seq(T), NEW offset, NEW depth, NEW last, NEW p,
         Absorbed(p, <<offset, depth>>, last, e, Len(e))
  PROVE  Blake2s_Final(p) = Blake2s(offset, depth, last, e)
<1> DEFINE B == BlockSize
           x == Len(e)
           place == <<offset, depth>>
<1>1. PICK n \in Nat : /\ \E b : Holds(p, b, place, last, e, x, n)
                       /\ ((x = 0 /\ n = 0) \/ n * B < x)
  BY DEF Absorbed
<1>2. PICK b : Holds(p, b, place, last, e, x, n)
  BY <1>1
<1> DEFINE m == n * B
           c == Chain(place, e, n)
           w == Cleared(b, x - m)
           z == <<w, Counter(m + (x - m)), Closed(last)>>
           g == [k \in 1..(n + 1) |-> BlockOf(last, e, n + 1, k)]
<1>3. /\ B \in Nat \ {0} /\ m \in Nat /\ x \in Nat /\ (n + 1) * B = m + B
      /\ (n + 2) * B = m + B + B /\ (n = 0 => m = 0)
  <2>1. B \in Nat \ {0} /\ x \in Nat
    BY Sizes
  <2>2. m \in Nat /\ (n + 1) * B = m + B /\ (n = 0 => m = 0)
    BY <2>1, TimesKeepsOrder
  <2>3. ((n + 1) + 1) * B = (n + 1) * B + B /\ (n + 1) + 1 = n + 2
    BY <2>1, TimesKeepsOrder
  <2> HIDE DEF m, B, x
  <2>4. QED  BY <2>1, <2>2, <2>3
<1>4. /\ p = Node(c, Counter(m), b, x - m, last) /\ x - m \in 0..B
      /\ b = [i \in 0..(B - 1) |-> b[i]]
      /\ \A i \in 0..(B - 1) : i < x - m => b[i] = e[m + i + 1]
  BY <1>2 DEF Holds, Begins
<1>12. x - m \in 0..B
  BY <1>4
<1>5. Blake2s_Final(p) = Digested(Append(c, z))
  <2> HIDE DEF c, m, x
  <2>1. Blake2s_Final(Node(c, Counter(m), b, x - m, last)) = Digested(Append(c, z))
    <3> DEFINE k == x - m
    <3>1. k \in 0..BlockSize /\ m \in Nat
      BY <1>3, <1>12
    <3> HIDE DEF k
    <3>2. Blake2s_Final(Node(c, Counter(m), b, k, last)) =
            Digested(Append(c, <<Cleared(b, k), Counter(m + k), Closed(last)>>))
      BY <3>1, FinalForm
    <3>3. QED  BY <3>2 DEF k
  <2>2. QED  BY <1>4, <2>1
<1>6. Count(e) = n + 1
  <2>1. CASE x = 0
    <3>1. n = 0
      <4> HIDE DEF x, m, B
      <4>1. ~(m < 0)
        BY <1>3
      <4>2. QED  BY <1>1, <2>1, <4>1 DEF m, B
    <3>2. QED  BY <2>1, <3>1 DEF Count
  <2>2. CASE x # 0
    <3>1. m < x /\ x <= m + B
      <4>1. m < x
        BY <1>1, <2>2
      <4> HIDE DEF x, m, B
      <4>2. QED  BY <1>3, <1>12, <4>1
    <3>2. e # <<>>
      BY <2>2
    <3> DEFINE s == x + B - 1
    <3>3. s \in Nat /\ m + B <= s /\ s < m + B + B
      <4> HIDE DEF x, m, B
      <4>1. QED  BY <1>3, <3>1
    <3> HIDE DEF s, m
    <3>4. n + 1 \in Nat /\ (n + 1) * B <= s /\ s < ((n + 1) + 1) * B
      <4>1. (n + 1) + 1 = n + 2
        OBVIOUS
      <4>2. QED  BY <1>3, <3>3, <4>1
    <3>5. s \div B = n + 1
      BY <1>3, <3>3, <3>4, QuotientIs
    <3>6. QED  BY <3>2, <3>5 DEF Count, s
  <2>3. QED  BY <2>1, <2>2
<1>7. z = BlockOf(last, e, n + 1, n + 1)
  <2>1. w = [i \in 0..(B - 1) |-> IF m + i + 1 <= x THEN e[m + i + 1] ELSE Zero]
    <3>1. DOMAIN b = 0..(B - 1)
      BY <1>4
    <3>2. ASSUME NEW i \in 0..(B - 1)
          PROVE  (IF i >= x - m THEN Zero ELSE b[i]) =
                    (IF m + i + 1 <= x THEN e[m + i + 1] ELSE Zero)
      <4> HIDE DEF x, m, B
      <4>1. CASE i >= x - m
        <5>1. ~(m + i + 1 <= x)
          BY <1>3, <4>1
        <5>2. QED  BY <4>1, <5>1
      <4>2. CASE ~(i >= x - m)
        <5>1. m + i + 1 <= x /\ i < x - m
          BY <1>3, <4>2
        <5>2. QED  BY <1>4, <4>2, <5>1
      <4>3. QED  BY <4>1, <4>2
    <3>3. QED  BY <3>1, <3>2 DEF Cleared
  <2>2. m + (x - m) = x /\ (n + 1) - 1 = n
    BY <1>3
  <2>3. BlockOf(last, e, n + 1, n + 1) =
          <<[i \in 0..(B - 1) |-> IF m + i + 1 <= x THEN e[m + i + 1] ELSE Zero],
            Counter(x), Closed(last)>>
    BY <2>2 DEF BlockOf, Closed
  <2> HIDE DEF w, m, x
  <2>4. QED  BY <2>1, <2>2, <2>3
<1>8. ASSUME NEW k \in 1..n PROVE BlockOf(last, e, n + 1, k) = Blk(e, k)
  <2> DEFINE a == (k - 1) * B
  <2>1. a \in Nat /\ a + B <= m
    <3>1. k - 1 \in Nat /\ (k - 1) + 1 = k /\ k \in Nat /\ k <= n
      OBVIOUS
    <3>2. ((k - 1) + 1) * B = a + B /\ a \in Nat
      BY <1>3, <3>1, TimesKeepsOrder
    <3>3. k * B <= m
      BY <1>3, <3>1, TimesKeepsOrder
    <3> HIDE DEF a, m
    <3>4. QED  BY <3>1, <3>2, <3>3
  <2>2. m <= x
    <3> HIDE DEF m, x, B
    <3>1. QED  BY <1>3, <1>12
  <2>3. ASSUME NEW i \in 0..(B - 1) PROVE a + i + 1 <= x
    <3> HIDE DEF a, m, x, B
    <3>1. QED  BY <1>3, <2>1, <2>2, <2>3
  <2>4. [i \in 0..(B - 1) |-> IF a + i + 1 <= x THEN e[a + i + 1] ELSE Zero] =
          [i \in 0..(B - 1) |-> e[a + i + 1]]
    BY <2>3
  <2>5. k # n + 1
    OBVIOUS
  <2>6. BlockOf(last, e, n + 1, k) =
          <<[i \in 0..(B - 1) |-> IF a + i + 1 <= x THEN e[a + i + 1] ELSE Zero],
            Counter(k * B), Open>>
    BY <2>5 DEF BlockOf, Open
  <2>7. Blk(e, k) = <<[i \in 0..(B - 1) |-> e[a + i + 1]], Counter(k * B), Open>>
    BY DEF Blk
  <2> HIDE DEF a
  <2>8. QED  BY <2>4, <2>6, <2>7
<1>9. Append(c, z) = <<place>> \o g
  <2> DEFINE u == <<place>> \o g
  <2>1. Append(c, z) = [k \in 1..(n + 2) |-> IF k = n + 2 THEN z ELSE c[k]]
    <3> HIDE DEF z, place
    <3>1. QED  BY ChainGrows
  <2>2. u = [k \in 1..(n + 2) |-> IF k = 1 THEN place ELSE g[k - 1]]
    <3>1. n + 1 \in Nat /\ (n + 1) + 1 = n + 2 /\ g = [k \in 1..(n + 1) |-> g[k]]
      OBVIOUS
    <3> HIDE DEF g, place
    <3>2. <<place>> \o g = [k \in 1..((n + 1) + 1) |-> IF k = 1 THEN place ELSE g[k - 1]]
      BY <3>1, PlacedBefore
    <3>3. QED  BY <3>1, <3>2
  <2>3. \A k \in 1..(n + 1) : c[k] = IF k = 1 THEN place ELSE Blk(e, k - 1)
    BY DEF Chain
  <2>4. \A k \in 1..(n + 1) : g[k] = IF k = n + 1 THEN z ELSE Blk(e, k)
    <3>1. \A k \in 1..(n + 1) : k # n + 1 => k \in 1..n
      OBVIOUS
    <3> HIDE DEF z
    <3>2. QED  BY <1>7, <1>8, <3>1
  <2> HIDE DEF c, g, z, u, place
  <2>5. ASSUME NEW k \in 1..(n + 2)
        PROVE  (IF k = n + 2 THEN z ELSE c[k]) = (IF k = 1 THEN place ELSE g[k - 1])
    <3>1. CASE k = n + 2
      <4>1. k # 1 /\ k - 1 = n + 1 /\ n + 1 \in 1..(n + 1)
        BY <3>1
      <4>2. QED  BY <2>4, <3>1, <4>1
    <3>2. CASE k # n + 2 /\ k = 1
      <4>1. k \in 1..(n + 1)
        BY <3>2
      <4>2. QED  BY <2>3, <3>2, <4>1
    <3>3. CASE k # n + 2 /\ k # 1
      <4>1. k \in 1..(n + 1) /\ k - 1 \in 1..(n + 1) /\ k - 1 # n + 1
        BY <3>3
      <4>2. QED  BY <2>3, <2>4, <3>3, <4>1
    <3>4. QED  BY <3>1, <3>2, <3>3
  <2>6. Append(c, z) = u
    BY <2>1, <2>2, <2>5
  <2>7. QED  BY <2>6 DEF u
<1>10. Blake2s(offset, depth, last, e) = Digested(<<place>> \o g)
  BY <1>6, DefinitionIs DEF Digested
<1> HIDE DEF c, z, g, place
<1>11. QED  BY <1>5, <1>9, <1>10

-----------------------------------------------------------------------------
(* What Selection collects from places of which all pass, and what it does *)
(* not depend on.                                                          *)
LEMMA CollectsAll ==
  ASSUME NEW T, NEW list \in Seq(T), NEW places, NEW i \in 0..Len(list), NEW j \in i..Len(list),
         \A k \in (i + 1)..j : k \in places
  PROVE  /\ Collected(list, places)[i] \in Seq(T)
         /\ Collected(list, places)[j] = Collected(list, places)[i] \o SubSeq(list, i + 1, j)
<1> DEFINE c == Collected(list, places)
           N == Len(list)
           u == c[i]
           part(d) == SubSeq(list, i + 1, i + d)
           Good == {d \in Nat : i + d <= j => c[i + d] = u \o part(d)}
<1>1. /\ N \in Nat /\ i \in Nat /\ j \in Nat /\ i <= j /\ j <= N
      /\ \A n \in 0..N : n + 1 \in 0..N =>
           c[n + 1] = IF n + 1 \in places THEN Append(c[n], list[n + 1]) ELSE c[n]
  BY CollectedSteps
<1>2. u \in Seq(T)
  BY CollectedMeans
<1>3. \A d \in Nat : i + d <= j => part(d) \in Seq(T)
  <2>1. \A d \in Nat : i + d <= j => i + d \in i..Len(list)
    BY <1>1
  <2>2. QED  BY <2>1, PartIs
<1> HIDE DEF c, u
<1>4. 0 \in Good
  <2>1. part(0) = <<>> /\ i + 0 = i
    BY <1>1, SubSeqEmpty
  <2>2. u \o <<>> = u
    BY <1>2, ConcatEmptySeq
  <2>3. c[i] = u
    BY DEF u
  <2> HIDE DEF part
  <2>4. QED  BY <2>1, <2>2, <2>3
<1>5. ASSUME NEW d \in Nat, d \in Good PROVE d + 1 \in Good
  <2> HIDE DEF part
  <2> SUFFICES ASSUME i + (d + 1) <= j PROVE c[i + (d + 1)] = u \o part(d + 1)
    OBVIOUS
  <2> USE DEF part
  <2> DEFINE n == i + d
             v == list[n + 1]
  <2>1. n + 1 = i + (d + 1) /\ n \in 0..N /\ n + 1 \in 0..N /\ n + 1 \in (i + 1)..j /\ n <= j
    BY <1>1
  <2>2. c[n] = u \o part(d)
    BY <1>5, <2>1
  <2>3. c[n + 1] = Append(c[n], v)
    BY <1>1, <2>1
  <2>4. v \in T /\ part(d) \in Seq(T) /\ <<v>> \in Seq(T)
    <3>1. n + 1 \in 1..Len(list)
      BY <1>1, <2>1
    <3>2. v \in T
      BY <3>1
    <3> HIDE DEF part, v
    <3>3. QED  BY <1>3, <2>1, <3>2
  <2>5. part(d + 1) = part(d) \o <<v>>
    <3>1. i + 1 \in 1..Len(list) /\ n + 1 \in (i + 1)..Len(list) /\ (n + 1) - 1 = n
      BY <1>1, <2>1
    <3>2. SubSeq(list, i + 1, n + 1) = SubSeq(list, i + 1, (n + 1) - 1) \o <<list[n + 1]>>
      <4> DEFINE m == n + 1
      <4> HIDE DEF m
      <4>1. SubSeq(list, i + 1, m) = SubSeq(list, i + 1, m - 1) \o <<list[m]>>
        BY <3>1, SubSeqRecursiveSecond DEF m
      <4>2. QED  BY <4>1 DEF m
    <3>3. QED  BY <2>1, <3>1, <3>2
  <2> HIDE DEF part, v
  <2>6. u \o part(d) \in Seq(T)
    BY <1>2, <2>4, ConcatProperties
  <2>7. Append(u \o part(d), v) = (u \o part(d)) \o <<v>>
    BY <2>4, <2>6, AppendIsConcat
  <2>8. (u \o part(d)) \o <<v>> = u \o (part(d) \o <<v>>)
    BY <1>2, <2>4, ConcatAssociative
  <2>9. c[n + 1] = u \o part(d + 1)
    BY <2>2, <2>3, <2>5, <2>7, <2>8
  <2>10. QED  BY <2>1, <2>9
<1>6. Nat \subseteq Good
  <2> HIDE DEF Good
  <2>1. QED  BY <1>4, <1>5, NumberInduction
<1> DEFINE d == j - i
<1>7. d \in Nat /\ i + d = j /\ j <= j
  BY <1>1
<1>8. c[j] = u \o part(d)
  <2> HIDE DEF d, part
  <2>1. d \in Good
    BY <1>6, <1>7
  <2>2. QED  BY <1>7, <2>1
<1>9. part(d) = SubSeq(list, i + 1, j)
  BY <1>7
<1>10. QED  BY <1>2, <1>8, <1>9 DEF c, u

AlikeUpTo(list, more, places, others, N) ==
  \A k \in 1..N : list[k] = more[k] /\ (k \in places <=> k \in others)
Collects(c, list, places) ==
  /\ c[0] = <<>>
  /\ \A n \in 0..Len(list) : n + 1 \in 0..Len(list) =>
       c[n + 1] = IF n + 1 \in places THEN Append(c[n], list[n + 1]) ELSE c[n]

LEMMA CollectingIs ==
  ASSUME NEW T, NEW list \in Seq(T), NEW places
  PROVE  Collects(Collected(list, places), list, places)
BY CollectedSteps DEF Collects

LEMMA CollectsAlike ==
  ASSUME NEW T, NEW list \in Seq(T), NEW more \in Seq(T), NEW places, NEW others,
         NEW N \in 0..Len(list), N <= Len(more),
         AlikeUpTo(list, more, places, others, N)
  PROVE  Collected(list, places)[N] = Collected(more, others)[N]
<1>0. \A k \in 1..N : list[k] = more[k] /\ (k \in places <=> k \in others)
  BY DEF AlikeUpTo
<1> DEFINE c == Collected(list, places)
           g == Collected(more, others)
           Good == {n \in Nat : n <= N => c[n] = g[n]}
<1>1. Collects(c, list, places)
  BY CollectingIs
<1>2. Collects(g, more, others)
  BY CollectingIs
<1> HIDE DEF c, g
<1>3. N \in Nat /\ N <= Len(list) /\ Len(list) \in Nat /\ Len(more) \in Nat
  OBVIOUS
<1>4. 0 \in Good
  BY <1>1, <1>2 DEF Collects
<1>5. ASSUME NEW n \in Nat, n \in Good PROVE n + 1 \in Good
  <2> SUFFICES ASSUME n + 1 <= N PROVE c[n + 1] = g[n + 1]
    OBVIOUS
  <2>1. /\ n \in 0..Len(list) /\ n + 1 \in 0..Len(list) /\ n \in 0..Len(more)
        /\ n + 1 \in 0..Len(more) /\ n + 1 \in 1..N /\ n <= N
    BY <1>3
  <2>2. c[n] = g[n]
    BY <1>5, <2>1
  <2>3. c[n + 1] = IF n + 1 \in places THEN Append(c[n], list[n + 1]) ELSE c[n]
    BY <1>1, <2>1 DEF Collects
  <2>4. g[n + 1] = IF n + 1 \in others THEN Append(g[n], more[n + 1]) ELSE g[n]
    BY <1>2, <2>1 DEF Collects
  <2>5. list[n + 1] = more[n + 1] /\ (n + 1 \in places <=> n + 1 \in others)
    BY <1>0, <2>1
  <2>6. QED  BY <2>2, <2>3, <2>4, <2>5
<1>6. Nat \subseteq Good
  <2> HIDE DEF Good
  <2>1. QED  BY <1>4, <1>5, NumberInduction
<1>7. QED  BY <1>3, <1>6 DEF c, g

-----------------------------------------------------------------------------
(* The blocks of the stream, dealt in turn.                                *)
LEMMA PlaceIs ==
  ASSUME BlakeAssumption, NEW x \in Nat
  PROVE  /\ BlockSize * Degree \in Nat \ {0}
         /\ (x % (BlockSize * Degree)) \div BlockSize = (x \div BlockSize) % Degree
         /\ (x % (BlockSize * Degree)) % BlockSize = x % BlockSize
         /\ (x \div BlockSize) % Degree \in 0..(Degree - 1) /\ x % BlockSize \in 0..(BlockSize - 1)
<1> DEFINE B == BlockSize
           D == Degree
           u == x \div B
           r == x % B
           q == u \div D
           j == u % D
           P == B * D
           pos == j * B + r
<1>1. B \in Nat \ {0} /\ D \in Nat \ {0}
  BY Sizes
<1>2. u \in Nat /\ r \in 0..(B - 1) /\ r = x - u * B
  BY <1>1, QuotientBounds
<1> HIDE DEF u, r
<1>3. q \in Nat /\ j \in 0..(D - 1) /\ j = u - q * D
  BY <1>1, <1>2, QuotientBounds
<1> HIDE DEF q, j, B, D
<1>4. x = u * B + r /\ u = q * D + j
  <2> DEFINE a == u * B
             b == q * D
  <2>1. a \in Nat /\ b \in Nat
    BY <1>1, <1>2, <1>3, TimesKeepsOrder
  <2>2. r = x - a /\ j = u - b
    BY <1>2, <1>3
  <2> HIDE DEF a, b
  <2>3. x = a + r /\ u = b + j
    BY <1>2, <1>3, <2>1, <2>2
  <2>4. QED  BY <2>3 DEF a, b
<1>5. P \in Nat \ {0}
  BY <1>1
<1>6. pos \in 0..(P - 1)
  <2> DEFINE a == j * B
  <2>1. a \in Nat /\ (j + 1) * B = a + B
    BY <1>1, <1>3, TimesKeepsOrder
  <2>2. (j + 1) * B <= D * B /\ D * B = P
    <3>1. j + 1 \in Nat /\ j + 1 <= D /\ D \in Nat /\ B \in Nat
      BY <1>1, <1>3
    <3>2. (j + 1) * B <= D * B
      BY <3>1, TimesKeepsOrder
    <3>3. QED  BY <3>1, <3>2
  <2> HIDE DEF a, P
  <2>3. a + r \in 0..(P - 1)
    BY <1>1, <1>2, <1>5, <2>1, <2>2
  <2>4. QED  BY <2>3 DEF a
<1>7. x = q * P + pos
  <2>1. (q * D + j) * B = q * (B * D) + j * B
    BY <1>1, <1>3
  <2> DEFINE a == q * (B * D)
             b == j * B
  <2>2. x = (a + b) + r /\ a \in Nat /\ b \in Nat
    <3>1. a \in Nat /\ b \in Nat
      BY <1>3, <1>1, <1>5
    <3> HIDE DEF a, b
    <3>2. x = (a + b) + r
      BY <1>4, <2>1 DEF a, b
    <3>3. QED  BY <3>1, <3>2
  <2> HIDE DEF a, b
  <2>3. x = a + (b + r)
    BY <1>2, <2>2
  <2>4. QED  BY <2>3 DEF a, b
<1> HIDE DEF P
<1>8. x % P = pos
  <2> HIDE DEF pos
  <2>1. QED  BY <1>3, <1>5, <1>6, <1>7, DivisionIs
<1>9. pos \div B = j /\ pos % B = r
  <2>1. pos \in Nat /\ j \in Nat
    BY <1>3, <1>5, <1>6
  <2>2. pos = j * B + r
    OBVIOUS
  <2> HIDE DEF pos
  <2>3. QED  BY <1>1, <1>2, <2>1, <2>2, DivisionIs
<1>10. QED  BY <1>2, <1>3, <1>5, <1>8, <1>9 DEF u, r, j, P, B, D

LEMMA SameBlock ==
  ASSUME BlakeAssumption, NEW x \in Nat, NEW i \in x..(x + (BlockSize - (x % BlockSize)) - 1)
  PROVE  i \div BlockSize = x \div BlockSize
<1> DEFINE B == BlockSize
           u == x \div B
           r == x % B
           a == u * B
<1>1. B \in Nat \ {0}
  BY Sizes
<1>2. u \in Nat /\ r \in 0..(B - 1) /\ r = x - a
  BY <1>1, QuotientBounds
<1> HIDE DEF u, r, B
<1>3. a \in Nat /\ (u + 1) * B = a + B
  BY <1>1, <1>2, TimesKeepsOrder
<1> HIDE DEF a
<1>4. i \in Nat /\ i >= x /\ i <= x + (B - r) - 1
  BY <1>1, <1>2 DEF r, B
<1>5. a <= i /\ i < a + B
  BY <1>1, <1>2, <1>3, <1>4
<1>6. i \div B = u
  BY <1>1, <1>2, <1>3, <1>4, <1>5, QuotientIs DEF a
<1>7. QED  BY <1>6 DEF u, B

-----------------------------------------------------------------------------
(* What a leaf has of the first x of e, and a leaf that has absorbed it.   *)
LeafPlaces(leaf, N) == {i \in 1..N : ((i - 1) \div BlockSize) % Degree = leaf}
Part(leaf, e, x) == Collected(e, LeafPlaces(leaf, Len(e)))[x]
IsLast(leaf) == leaf = Degree - 1
LeafHas(p, leaf, e, x) ==
  Absorbed(p, <<leaf, 0>>, IsLast(leaf), Part(leaf, e, x), Len(Part(leaf, e, x)))
LeavesHave(leaves, e, x) ==
  /\ leaves = [i \in 0..(Degree - 1) |-> leaves[i]]
  /\ \A i \in 0..(Degree - 1) : LeafHas(leaves[i], i, e, x)

LEMMA PartOfLeaf ==
  ASSUME NEW T, NEW e \in Seq(T), NEW leaf
  PROVE  /\ Part(leaf, e, Len(e)) = OfLeaf(leaf, e) /\ Part(leaf, e, 0) = <<>>
         /\ \A x \in 0..Len(e) : Part(leaf, e, x) \in Seq(T)
<1>1. Part(leaf, e, Len(e)) = OfLeaf(leaf, e)
  BY DEF Part, OfLeaf, Selected, LeafPlaces
<1>2. Part(leaf, e, 0) = <<>>
  BY CollectedSteps DEF Part
<1>3. \A x \in 0..Len(e) : Part(leaf, e, x) \in Seq(T)
  BY CollectedMeans DEF Part
<1>4. QED  BY <1>1, <1>2, <1>3

(* What a leaf has does not depend on what comes later.                    *)
LEMMA PartBefore ==
  ASSUME NEW T, NEW d \in Seq(T), NEW more \in Seq(T), NEW leaf
  PROVE  Part(leaf, d \o more, Len(d)) = OfLeaf(leaf, d)
<1> DEFINE e == d \o more
           N == Len(d)
<1>1. e \in Seq(T) /\ Joins(e, d, more)
  BY ConcatIs
<1> HIDE DEF e
<1>2. N \in Nat /\ N \in 0..Len(d) /\ N <= Len(e) /\ \A k \in 1..N : d[k] = e[k]
  BY <1>1 DEF Joins
<1>3. \A k \in 1..N : k \in LeafPlaces(leaf, Len(d)) <=> k \in LeafPlaces(leaf, Len(e))
  <2>1. \A k \in 1..N : k \in 1..Len(d) /\ k \in 1..Len(e)
    BY <1>1, <1>2
  <2>2. QED  BY <2>1 DEF LeafPlaces
<1>4. Collected(d, LeafPlaces(leaf, Len(d)))[N] = Collected(e, LeafPlaces(leaf, Len(e)))[N]
  <2> DEFINE P == LeafPlaces(leaf, Len(d))
             Q == LeafPlaces(leaf, Len(e))
  <2>1. AlikeUpTo(d, e, P, Q, N)
    BY <1>2, <1>3 DEF AlikeUpTo
  <2> HIDE DEF N, P, Q
  <2>2. Collected(d, P)[N] = Collected(e, Q)[N]
    BY <1>1, <1>2, <2>1, CollectsAlike
  <2>3. QED  BY <2>2 DEF P, Q
<1>5. Part(leaf, d, N) = Part(leaf, e, N)
  BY <1>4 DEF Part
<1>6. QED  BY <1>5, PartOfLeaf DEF e

(* A piece of one block goes to one leaf.                                  *)
OneLeaf(x, z, leaf) == \A i \in (x + 1)..z : ((i - 1) \div BlockSize) % Degree = leaf
PartMoves(leaf, e, x, z, j) ==
  /\ leaf = j => Part(leaf, e, z) = Part(leaf, e, x) \o SubSeq(e, x + 1, z)
  /\ leaf # j => Part(leaf, e, z) = Part(leaf, e, x)

LEMMA PartGrows ==
  ASSUME NEW T, NEW e \in Seq(T), NEW x \in 0..Len(e), NEW z \in x..Len(e), NEW j,
         OneLeaf(x, z, j), NEW leaf
  PROVE  PartMoves(leaf, e, x, z, j)
<1> DEFINE places == LeafPlaces(leaf, Len(e))
<1>1. \A i \in (x + 1)..z : i \in 1..Len(e)
  OBVIOUS
<1>2. CASE leaf = j
  <2>1. \A i \in (x + 1)..z : i \in places
    BY <1>1, <1>2 DEF LeafPlaces, OneLeaf
  <2> HIDE DEF places
  <2>2. Collected(e, places)[z] = Collected(e, places)[x] \o SubSeq(e, x + 1, z)
    BY <2>1, CollectsAll
  <2>3. QED  BY <1>2, <2>2 DEF Part, PartMoves, places
<1>3. CASE leaf # j
  <2>1. \A i \in (x + 1)..z : i \notin places
    BY <1>1, <1>3 DEF LeafPlaces, OneLeaf
  <2> HIDE DEF places
  <2>2. Collected(e, places)[z] = Collected(e, places)[x]
    BY <2>1, CollectsNothing
  <2>3. QED  BY <1>3, <2>2 DEF Part, PartMoves, places
<1>4. QED  BY <1>2, <1>3

(* A node that has absorbed all of u has after d absorbed u and d.         *)
LEMMA NodeGrows ==
  ASSUME BlakeAssumption, NEW T, NEW u \in Seq(T), NEW d \in Seq(T), NEW p, NEW place, NEW last,
         Absorbed(p, place, last, u, Len(u))
  PROVE  Absorbed(Blake2s_Update(p, d), place, last, u \o d, Len(u \o d))
<1> DEFINE v == u \o d
           n == Len(u)
           m == Len(v)
<1>1. v \in Seq(T) /\ Joins(v, u, d)
  BY ConcatIs
<1> HIDE DEF v
<1>2. n \in Nat /\ m = n + Len(d) /\ Len(d) \in Nat /\ \A i \in 1..n : u[i] = v[i]
  BY <1>1 DEF Joins
<1>3. n \in 0..m /\ m \in n..m
  BY <1>2
<1>4. SubSeq(v, n + 1, m) = d
  <2>1. n \in 0..Len(v) /\ m \in n..Len(v)
    BY <1>3
  <2> DEFINE w == SubSeq(v, n + 1, m)
  <2>2. w \in Seq(T) /\ Len(w) = m - n /\ \A i \in 1..(m - n) : w[i] = v[n + i]
    <3> HIDE DEF n, m
    <3>1. QED  BY <1>1, <2>1, PartIs
  <2>3. \A i \in 1..Len(d) : v[n + i] = d[i]
    BY <1>1 DEF Joins
  <2>4. m - n = Len(d)
    BY <1>2
  <2> HIDE DEF w, n, m
  <2>5. Len(w) = Len(d) /\ \A i \in 1..Len(d) : w[i] = d[i]
    BY <2>2, <2>3, <2>4
  <2>6. w = d
    BY <2>2, <2>5, SameSequence
  <2>7. QED  BY <2>6 DEF w
<1>5. Absorbed(p, place, last, v, n)
  BY <1>2, Agrees
<1>6. Absorbed(Blake2s_Update(p, SubSeq(v, n + 1, m)), place, last, v, m)
  <2>1. n \in 0..Len(v) /\ m \in n..Len(v)
    BY <1>3
  <2> HIDE DEF n, m
  <2>2. QED  BY <1>1, <1>5, <2>1, UpdateAbsorbs
<1>7. QED  BY <1>4, <1>6 DEF v

-----------------------------------------------------------------------------
(* A turn of the deal: what is left of a block, to the leaf it is of.      *)
DealState(leaves, e, x, y) ==
  [leaves |-> leaves, pos |-> x % (BlockSize * Degree), data |-> SubSeq(e, x + 1, y)]

Piece(pos, data) ==
  IF BlockSize - (pos % BlockSize) > Len(data) THEN Len(data) ELSE BlockSize - (pos % BlockSize)
DealtTo(leaves, pos, data, rem) ==
  [leaves |-> [leaves EXCEPT ![pos \div BlockSize] = Blake2s_Update(@, SubSeq(data, 1, rem))],
   pos |-> (pos + rem) % (BlockSize * Degree),
   data |-> SubSeq(data, rem + 1, Len(data))]

LEMMA DealtBlockIs ==
  ASSUME NEW leaves, NEW pos, NEW data, data # <<>>
  PROVE  DealtBlock([leaves |-> leaves, pos |-> pos, data |-> data]) =
           DealtTo(leaves, pos, data, Piece(pos, data))
BY DEF DealtBlock, DealtTo, Piece

LEMMA DealGoes ==
  ASSUME BlakeAssumption, NEW T, NEW e \in Seq(T), NEW x \in 0..Len(e), NEW y \in x..Len(e),
         x # y, NEW leaves, LeavesHave(leaves, e, x)
  PROVE  \E after : \E z \in (x + 1)..y :
           /\ LeavesHave(after, e, z)
           /\ DealtBlock(DealState(leaves, e, x, y)) = DealState(after, e, z, y)
<1> DEFINE B == BlockSize
           P == B * Degree
           pos == x % P
           j == (x \div B) % Degree
           left == B - (x % B)
           data == SubSeq(e, x + 1, y)
           rem == IF left > y - x THEN y - x ELSE left
           z == x + rem
           part == SubSeq(e, x + 1, z)
           after == [leaves EXCEPT ![j] = Blake2s_Update(@, part)]
<1>1. /\ B \in Nat \ {0} /\ x \in Nat /\ y \in Nat /\ x < y /\ y <= Len(e) /\ Len(e) \in Nat
      /\ Degree \in Nat \ {0}
  <2>1. B \in Nat \ {0} /\ Degree \in Nat \ {0}
    BY Sizes
  <2>2. x \in Nat /\ y \in Nat /\ x < y /\ y <= Len(e) /\ Len(e) \in Nat
    OBVIOUS
  <2>3. QED  BY <2>1, <2>2
<1>2. P \in Nat \ {0} /\ pos \div B = j /\ pos % B = x % B /\ j \in 0..(Degree - 1)
      /\ x % B \in 0..(B - 1)
  BY <1>1, PlaceIs
<1>3. Len(data) = y - x
  BY PartIs
<1> HIDE DEF P, B
<1>4. left \in 1..B
  BY <1>1, <1>2
<1> HIDE DEF left
<1>5. rem \in Nat /\ rem >= 1 /\ rem <= left /\ rem <= y - x
  BY <1>1, <1>4
<1> HIDE DEF rem
<1>6. z \in (x + 1)..y /\ z \in x..y /\ z \in x..Len(e) /\ z \in Nat /\ z - x = rem
  BY <1>1, <1>5
<1> HIDE DEF pos, j, data, part
<1>7. DealtBlock(DealState(leaves, e, x, y)) = DealState(after, e, z, y)
  <2>1. data # <<>>
    BY <1>1, <1>3
  <2>2. rem = Piece(pos, data)
    BY <1>2, <1>3 DEF rem, left, B, Piece
  <2>3. SubSeq(data, 1, rem) = part /\ SubSeq(data, rem + 1, Len(data)) = SubSeq(e, z + 1, y)
    <3>1. /\ SubSeq(data, 1, z - x) = part
          /\ SubSeq(data, (z - x) + 1, Len(data)) = SubSeq(e, z + 1, y)
      <4> HIDE DEF z
      <4>1. QED  BY <1>6, PartOfPart DEF data, part
    <3>2. QED  BY <1>6, <3>1
  <2>4. (pos + rem) % P = z % P
    BY <1>1, <1>2, <1>5, RestOfSum DEF pos
  <2>5. DealState(leaves, e, x, y) = [leaves |-> leaves, pos |-> pos, data |-> data]
    BY DEF DealState, pos, data, P, B
  <2>6. DealtBlock([leaves |-> leaves, pos |-> pos, data |-> data]) =
          DealtTo(leaves, pos, data, rem)
    BY <2>1, <2>2, DealtBlockIs
  <2>7. DealState(after, e, z, y) = [leaves |-> after, pos |-> z % P, data |-> SubSeq(e, z + 1, y)]
    BY DEF DealState, P, B
  <2>8. [leaves EXCEPT ![pos \div BlockSize] = Blake2s_Update(@, SubSeq(data, 1, rem))] = after
    BY <1>2, <2>3 DEF B
  <2>9. (pos + rem) % (BlockSize * Degree) = z % P
    BY <2>4 DEF P, B
  <2> HIDE DEF after, z, P
  <2>10. DealtTo(leaves, pos, data, rem) =
           [leaves |-> after, pos |-> z % P, data |-> SubSeq(e, z + 1, y)]
    BY <2>3, <2>8, <2>9 DEF DealtTo
  <2>11. QED  BY <2>5, <2>6, <2>7, <2>10
<1>8. ASSUME NEW i \in (x + 1)..z PROVE ((i - 1) \div B) % Degree = j
  <2>1. i - 1 \in x..(x + left - 1)
    BY <1>1, <1>4, <1>5, <1>8
  <2>2. (i - 1) \div B = x \div B
    <3> DEFINE k == i - 1
    <3> HIDE DEF k
    <3>1. k \div B = x \div B
      BY <1>1, <2>1, SameBlock DEF k, left, B
    <3>2. QED  BY <3>1 DEF k
  <2>3. QED  BY <2>2 DEF j
<1>9. leaves = [i \in 0..(Degree - 1) |-> leaves[i]]
  BY DEF LeavesHave
<1>10. ASSUME NEW i \in 0..(Degree - 1) PROVE LeafHas(after[i], i, e, z)
  <2> DEFINE u == Part(i, e, x)
             place == <<i, 0>>
             last == IsLast(i)
  <2>1. LeafHas(leaves[i], i, e, x)
    BY DEF LeavesHave
  <2>2. (i = j => Part(i, e, z) = u \o part) /\ (i # j => Part(i, e, z) = u)
    <3>1. OneLeaf(x, z, j)
      BY <1>8 DEF OneLeaf, B
    <3> HIDE DEF z
    <3>2. PartMoves(i, e, x, z, j)
      BY <1>6, <3>1, PartGrows
    <3>3. QED  BY <3>2 DEF PartMoves, part
  <2>3. CASE i # j
    <3>1. after[i] = leaves[i]
      BY <1>9, <2>3
    <3>2. Part(i, e, z) = u
      BY <2>2, <2>3
    <3> HIDE DEF after, z
    <3>3. QED  BY <2>1, <3>1, <3>2 DEF LeafHas
  <2>4. CASE i = j
    <3>1. after[i] = Blake2s_Update(leaves[i], part)
      BY <1>9, <2>4
    <3>2. Part(i, e, z) = u \o part
      BY <2>2, <2>4
    <3>3. u \in Seq(T) /\ part \in Seq(T)
      <4>1. u \in Seq(T)
        BY PartOfLeaf
      <4>2. part \in Seq(T)
        <5> HIDE DEF z
        <5>1. QED  BY <1>6, PartIs DEF part
      <4>3. QED  BY <4>1, <4>2
    <3>4. Absorbed(leaves[i], place, last, u, Len(u))
      BY <2>1 DEF LeafHas
    <3> HIDE DEF u, place, last, after, z
    <3>5. Absorbed(Blake2s_Update(leaves[i], part), place, last, u \o part, Len(u \o part))
      BY <3>3, <3>4, NodeGrows
    <3>6. QED  BY <3>1, <3>2, <3>5 DEF LeafHas, place, last
  <2>5. QED  BY <2>3, <2>4
<1>11. after = [i \in 0..(Degree - 1) |-> after[i]]
  BY <1>9
<1> HIDE DEF after, z
<1>12. LeavesHave(after, e, z)
  BY <1>10, <1>11 DEF LeavesHave
<1>13. QED  BY <1>6, <1>7, <1>12

(* After k turns k of the bytes are dealt, or all.                         *)
LEMMA DealtIs ==
  ASSUME BlakeAssumption, NEW T, NEW e \in Seq(T), NEW x \in 0..Len(e), NEW y \in x..Len(e),
         NEW leaves, LeavesHave(leaves, e, x)
  PROVE  \E after : /\ LeavesHave(after, e, y)
                    /\ Dealt(leaves, x % (BlockSize * Degree), SubSeq(e, x + 1, y)) =
                         DealState(after, e, y, y)
<1> DEFINE pos == x % (BlockSize * Degree)
           data == SubSeq(e, x + 1, y)
           N == Len(data)
           f == Dealing(leaves, pos, data)
           Held(k) == \E z \in x..y : /\ z = y \/ k <= z - x
                                      /\ \E now : /\ LeavesHave(now, e, z)
                                                  /\ f[k] = DealState(now, e, z, y)
           Good == {k \in Nat : k <= N => Held(k)}
<1>1. /\ N = y - x /\ x \in Nat /\ y \in Nat /\ x <= y /\ N \in Nat /\ y <= Len(e)
      /\ Len(e) \in Nat
  BY PartIs
<1>2. Runs(f, N, DealState(leaves, e, x, y), <<"deal">>)
  <2>1. DealState(leaves, e, x, y) = [leaves |-> leaves, pos |-> pos, data |-> data]
    BY DEF DealState
  <2> HIDE DEF data, pos, f
  <2>2. Runs(Dealing(leaves, pos, data), Len(data),
             [leaves |-> leaves, pos |-> pos, data |-> data], <<"deal">>)
    BY <1>1, LoopsRun
  <2>3. QED  BY <2>1, <2>2 DEF f
<1>3. f[0] = DealState(leaves, e, x, y)
  BY <1>2 DEF Runs
<1>4. \A k \in Nat : k + 1 <= N => f[k + 1] = DealtBlock(f[k])
  BY <1>2, TurnIs DEF Runs
<1>5. Dealt(leaves, pos, data) = f[N]
  BY LoopsChosen
<1> HIDE DEF f, N
<1>6. 0 \in Good
  <2>1. x \in x..y /\ 0 <= x - x
    BY <1>1
  <2>2. QED  BY <1>3, <2>1
<1>7. ASSUME NEW k \in Nat, k \in Good PROVE k + 1 \in Good
  <2> HIDE DEF Held
  <2> SUFFICES ASSUME k + 1 <= N PROVE Held(k + 1)
    OBVIOUS
  <2>1. k <= N
    BY <1>1
  <2>2. Held(k)
    BY <1>7, <2>1
  <2>3. PICK z \in x..y : /\ z = y \/ k <= z - x
                          /\ \E now : LeavesHave(now, e, z) /\ f[k] = DealState(now, e, z, y)
    BY <2>2 DEF Held
  <2>4. PICK now : LeavesHave(now, e, z) /\ f[k] = DealState(now, e, z, y)
    BY <2>3
  <2>5. f[k + 1] = DealtBlock(f[k])
    BY <1>4
  <2>6. CASE z = y
    <3>1. f[k].data = <<>>
      <4>1. SubSeq(e, y + 1, y) = <<>>
        BY <1>1, SubSeqEmpty
      <4>2. QED  BY <2>4, <2>6, <4>1 DEF DealState
    <3>2. f[k + 1] = f[k]
      BY <2>5, <3>1 DEF DealtBlock
    <3>3. QED  BY <2>4, <2>6, <3>2 DEF Held
  <2>7. CASE z # y
    <3>1. z \in 0..Len(e) /\ y \in z..Len(e)
      BY <1>1
    <3>2. PICK more : \E w \in (z + 1)..y :
                        /\ LeavesHave(more, e, w)
                        /\ DealtBlock(DealState(now, e, z, y)) = DealState(more, e, w, y)
      BY <2>4, <2>7, <3>1, DealGoes
    <3>3. PICK w \in (z + 1)..y :
                        /\ LeavesHave(more, e, w)
                        /\ DealtBlock(DealState(now, e, z, y)) = DealState(more, e, w, y)
      BY <3>2
    <3>4. f[k + 1] = DealState(more, e, w, y)
      BY <2>4, <2>5, <3>3
    <3>5. w \in x..y /\ k + 1 <= w - x
      BY <1>1, <2>3, <2>7, <3>3
    <3>6. QED  BY <3>3, <3>4, <3>5 DEF Held
  <2>8. QED  BY <2>6, <2>7
<1>8. Held(N)
  <2> HIDE DEF Held
  <2>1. Nat \subseteq Good
    <3> HIDE DEF Good
    <3>1. QED  BY <1>6, <1>7, NumberInduction
  <2>2. N \in Good /\ N <= N
    BY <1>1, <2>1
  <2>3. QED  BY <2>2
<1>9. PICK z \in x..y : /\ z = y \/ N <= z - x
                        /\ \E now : LeavesHave(now, e, z) /\ f[N] = DealState(now, e, z, y)
  BY <1>8
<1>10. z = y
  BY <1>1, <1>9
<1>11. QED  BY <1>5, <1>9, <1>10

-----------------------------------------------------------------------------
(* Sequences of G symbols each, one after the other.                       *)
Spread(d, N, G) == [i \in 1..(N * G) |-> d[(i - 1) \div G + 1][((i - 1) % G) + 1]]
Symbols(e) == {e[i] : i \in DOMAIN e}

LEMMA SpreadIs ==
  ASSUME NEW N \in Nat, NEW G \in Nat \ {0}, NEW d
  PROVE  /\ Spread(d, N, G) \in Seq(Symbols(Spread(d, N, G))) /\ Len(Spread(d, N, G)) = N * G
         /\ \A j \in 0..(N - 1) : /\ j * G \in 0..(N * G) /\ (j + 1) * G \in (j * G)..(N * G)
                                  /\ (j + 1) * G = j * G + G
         /\ \A j \in 0..(N - 1) : \A i \in 1..G : Spread(d, N, G)[j * G + i] = d[j + 1][i]
<1> DEFINE e == Spread(d, N, G)
           M == N * G
<1>1. M \in Nat
  BY TimesKeepsOrder
<1>2. e = [k \in 1..M |-> e[k]]
  BY DEF Spread
<1>3. e \in Seq(Symbols(e)) /\ Len(e) = M
  <2> HIDE DEF e, M
  <2>1. DOMAIN e = 1..M
    BY <1>2
  <2>2. \A k \in 1..M : e[k] \in Symbols(e)
    BY <2>1 DEF Symbols
  <2>3. e \in [1..M -> Symbols(e)]
    BY <1>2, <2>2
  <2>4. QED  BY <1>1, <2>3
<1>4. ASSUME NEW j \in 0..(N - 1)
      PROVE  j * G \in 0..M /\ (j + 1) * G \in (j * G)..M /\ (j + 1) * G = j * G + G
  <2>1. j \in Nat /\ j + 1 \in Nat /\ j + 1 <= N
    OBVIOUS
  <2>2. j * G \in Nat /\ (j + 1) * G = j * G + G /\ (j + 1) * G <= N * G
    BY <2>1, TimesKeepsOrder
  <2> DEFINE a == j * G
             b == (j + 1) * G
  <2>3. a \in Nat /\ b = a + G /\ b <= M
    BY <2>2
  <2> HIDE DEF a, b, M
  <2>4. a \in 0..M /\ b \in a..M /\ b = a + G
    BY <1>1, <2>3
  <2>5. QED  BY <2>4 DEF a, b
<1>5. ASSUME NEW j \in 0..(N - 1), NEW i \in 1..G PROVE e[j * G + i] = d[j + 1][i]
  <2> DEFINE a == j * G
             k == a + i
  <2>1. a \in Nat /\ a + G <= M /\ j \in Nat
    <3>1. a \in 0..M /\ (j + 1) * G \in a..M /\ (j + 1) * G = a + G
      BY <1>4
    <3> HIDE DEF a, M
    <3>2. QED  BY <1>1, <3>1
  <2>2. k \in 1..M /\ k - 1 \in Nat /\ i - 1 \in 0..(G - 1) /\ k - 1 = a + (i - 1)
    <3> HIDE DEF a, M
    <3>1. QED  BY <1>1, <2>1
  <2>3. (k - 1) \div G = j /\ (k - 1) % G = i - 1
    <3> DEFINE n == k - 1
               r == i - 1
    <3>1. n \in Nat /\ r \in 0..(G - 1) /\ n = j * G + r
      BY <2>2
    <3> HIDE DEF n, r
    <3>2. n \div G = j /\ n % G = r
      BY <2>1, <3>1, DivisionIs
    <3>3. QED  BY <3>2 DEF n, r
  <2>4. e[k] = d[(k - 1) \div G + 1][((k - 1) % G) + 1]
    <3> HIDE DEF k
    <3>1. QED  BY <2>2 DEF Spread
  <2>5. (i - 1) + 1 = i
    OBVIOUS
  <2> HIDE DEF e
  <2>6. QED  BY <2>3, <2>4, <2>5
<1>6. QED  BY <1>3, <1>4, <1>5

-----------------------------------------------------------------------------
(* The root is fed the digests of the leaves.                              *)
Digests(data) == Spread(LeafDigests(data), Degree, DigestSize)

LEMMA LeafDigest ==
  ASSUME BlakeAssumption, NEW T, NEW data \in Seq(T), NEW leaves,
         LeavesHave(leaves, data, Len(data)), NEW j \in 0..(Degree - 1)
  PROVE  /\ Blake2s_Final(leaves[j]) = LeafDigests(data)[j + 1]
         /\ \E g : LeafDigests(data)[j + 1] = Digested(g)
<1> DEFINE u == OfLeaf(j, data)
           last == IsLast(j)
<1>1. Degree \in Nat \ {0} /\ Len(data) \in Nat
  BY Sizes
<1>2. u \in Seq(T) /\ Part(j, data, Len(data)) = u
  <2>1. Len(data) \in 0..Len(data)
    BY <1>1
  <2> HIDE DEF u
  <2>2. QED  BY <2>1, PartOfLeaf DEF u
<1>3. LeafHas(leaves[j], j, data, Len(data))
  BY DEF LeavesHave
<1>4. Absorbed(leaves[j], <<j, 0>>, last, u, Len(u))
  <2> HIDE DEF u, last
  <2>1. QED  BY <1>2, <1>3 DEF LeafHas, last
<1>5. Blake2s_Final(leaves[j]) = Blake2s(j, 0, last, u)
  <2> HIDE DEF u, last
  <2>1. QED  BY <1>2, <1>4, FinalIs
<1>6. LeafDigests(data)[j + 1] = Blake2s(j, 0, last, u)
  <2>1. j + 1 \in 1..Degree /\ (j + 1) - 1 = j
    BY <1>1
  <2>2. LeafDigests(data)[j + 1] =
          Blake2s((j + 1) - 1, 0, j + 1 = Degree, OfLeaf((j + 1) - 1, data))
    BY <2>1 DEF LeafDigests
  <2>3. (j + 1 = Degree) = last
    <3>1. j + 1 = Degree <=> j = Degree - 1
      BY <1>1
    <3>2. QED  BY <3>1 DEF IsLast
  <2>4. Blake2s(j, 0, j + 1 = Degree, u) = Blake2s(j, 0, last, u)
    <3> HIDE DEF u, last
    <3>1. QED  BY <2>3
  <2>5. QED  BY <2>1, <2>2, <2>4
<1>7. \E g : Blake2s(j, 0, last, u) = Digested(g)
  <2> HIDE DEF u, last
  <2>1. QED  BY DefinitionIs DEF Digested
<1>8. QED  BY <1>5, <1>6, <1>7

LEMMA DigestOf ==
  ASSUME BlakeAssumption, NEW T, NEW data \in Seq(T), NEW leaves,
         LeavesHave(leaves, data, Len(data)), NEW j \in 0..(Degree - 1)
  PROVE  SubSeq(Digests(data), j * DigestSize + 1, (j + 1) * DigestSize) = Blake2s_Final(leaves[j])
<1> DEFINE e == Digests(data)
           d == LeafDigests(data)
           G == DigestSize
           Q == Symbols(e)
           x == j * G
           y == (j + 1) * G
           s == SubSeq(e, x + 1, y)
           t == d[j + 1]
<1>1. Degree \in Nat \ {0} /\ G \in Nat \ {0}
  BY Sizes
<1>2. /\ e \in Seq(Q) /\ Len(e) = Degree * G /\ x \in 0..Len(e) /\ y \in x..Len(e) /\ y = x + G
      /\ \A i \in 1..G : e[x + i] = t[i]
  <2> HIDE DEF d
  <2>1. /\ e \in Seq(Q) /\ Len(e) = Degree * G
        /\ x \in 0..(Degree * G) /\ y \in x..(Degree * G) /\ y = x + G
        /\ \A i \in 1..G : e[x + i] = t[i]
    BY <1>1, SpreadIs DEF Digests, d
  <2> HIDE DEF e, x, y, t, Q
  <2>2. QED  BY <2>1
<1>3. Blake2s_Final(leaves[j]) = t /\ \E g : t = Digested(g)
  BY LeafDigest
<1> HIDE DEF e, d, x, y, t, Q
<1>4. s \in Seq(Q) /\ Len(s) = G /\ \A i \in 1..G : s[i] = t[i]
  <2>1. /\ s \in Seq(Q) /\ Len(s) = y - x /\ \A i \in 1..(y - x) : s[i] = e[x + i]
    BY <1>2, PartIs
  <2>2. y - x = G
    BY <1>1, <1>2
  <2> HIDE DEF s
  <2>3. QED  BY <1>2, <2>1, <2>2
<1>5. s = [i \in 1..G |-> s[i]]
  <2> HIDE DEF s
  <2>1. QED  BY <1>4
<1>6. t = [i \in 1..G |-> t[i]]
  BY <1>3 DEF Digested
<1> HIDE DEF s
<1>7. s = t
  BY <1>4, <1>5, <1>6
<1>8. QED  BY <1>3, <1>7 DEF s, e, x, y

LEMMA RootIs ==
  ASSUME BlakeAssumption, NEW T, NEW data \in Seq(T), NEW leaves,
         LeavesHave(leaves, data, Len(data))
  PROVE  Blake2s_Final(Root(leaves)) = BlakeDigest(data)
<1> DEFINE e == Digests(data)
           G == DigestSize
           Q == Symbols(e)
           place == <<0, 1>>
           last == TRUE
           init == [Blake2sp_Init_Spec(0, 1) EXCEPT !.lastNode = last]
           f == Rooting(leaves)
           Good == {k \in Nat : k <= Degree => Absorbed(f[k], place, last, e, k * G)}
<1>1. Degree \in Nat \ {0} /\ G \in Nat \ {0}
  BY Sizes
<1>2. /\ e \in Seq(Q) /\ Len(e) = Degree * G
      /\ \A j \in 0..(Degree - 1) : /\ j * G \in 0..Len(e) /\ (j + 1) * G \in (j * G)..Len(e)
  <2> DEFINE d == LeafDigests(data)
  <2> HIDE DEF d
  <2>1. /\ e \in Seq(Q) /\ Len(e) = Degree * G
        /\ \A j \in 0..(Degree - 1) :
             /\ j * G \in 0..(Degree * G) /\ (j + 1) * G \in (j * G)..(Degree * G)
    BY <1>1, SpreadIs DEF Digests, d
  <2> HIDE DEF e, Q
  <2>2. QED  BY <2>1
<1>3. Runs(f, Degree, init, <<"root", leaves>>)
  <2>1. Degree \in Nat
    BY <1>1
  <2> HIDE DEF f
  <2>2. QED  BY <2>1, LoopsRun DEF f
<1>4. f[0] = init
  BY <1>3 DEF Runs
<1>5. \A k \in Nat : k + 1 <= Degree =>
        f[k + 1] = Blake2s_Update(f[k], Blake2s_Final(leaves[(k + 1) - 1]))
  <2> HIDE DEF f, init
  <2>1. QED  BY <1>3, TurnIs DEF Runs
<1>6. Root(leaves) = f[Degree]
  BY LoopsChosen
<1> HIDE DEF f
<1>7. 0 \in Good
  <2>1. Absorbed(init, place, last, e, 0)
    <3> HIDE DEF e, last
    <3>1. QED  BY FreshHolds
  <2>2. 0 * G = 0
    BY <1>1
  <2> HIDE DEF init, place, e, last, G
  <2>3. QED  BY <1>4, <2>1, <2>2
<1> HIDE DEF init, place, last, Q
<1>8. ASSUME NEW k \in Nat, k \in Good PROVE k + 1 \in Good
  <2> SUFFICES ASSUME k + 1 <= Degree PROVE Absorbed(f[k + 1], place, last, e, (k + 1) * G)
    OBVIOUS
  <2> DEFINE x == k * G
             y == (k + 1) * G
  <2>1. k <= Degree /\ k \in 0..(Degree - 1) /\ (k + 1) - 1 = k
    BY <1>1
  <2>2. Absorbed(f[k], place, last, e, x)
    BY <1>8, <2>1
  <2>3. x \in 0..Len(e) /\ y \in x..Len(e)
    BY <1>2, <2>1
  <2>4. SubSeq(e, x + 1, y) = Blake2s_Final(leaves[k])
    BY <2>1, DigestOf
  <2>5. f[k + 1] = Blake2s_Update(f[k], Blake2s_Final(leaves[k]))
    BY <1>5, <2>1
  <2> HIDE DEF x, y, e
  <2>6. Absorbed(Blake2s_Update(f[k], SubSeq(e, x + 1, y)), place, last, e, y)
    BY <1>2, <2>2, <2>3, UpdateAbsorbs
  <2>7. QED  BY <2>4, <2>5, <2>6 DEF y
<1> HIDE DEF e
<1>9. Absorbed(f[Degree], place, last, e, Len(e))
  <2>1. Nat \subseteq Good
    <3> HIDE DEF Good
    <3>1. QED  BY <1>7, <1>8, NumberInduction
  <2>2. Degree \in Good /\ Degree <= Degree
    BY <1>1, <2>1
  <2>3. QED  BY <1>2, <2>2
<1>10. Blake2s_Final(f[Degree]) = Blake2s(0, 1, last, e)
  BY <1>2, <1>9, FinalIs DEF place
<1>11. BlakeDigest(data) = Blake2s(0, 1, last, e)
  BY DEF BlakeDigest, last, e, Digests, Spread
<1>12. QED  BY <1>6, <1>10, <1>11

-----------------------------------------------------------------------------
(* The leaves have absorbed their blocks of all bytes fed, and bufPos is   *)
(* where the next byte goes.                                               *)
BlakeInv ==
  /\ fed \in Seq(Byte)
  /\ LeavesHave(S, fed, Len(fed))
  /\ bufPos = Len(fed) % (BlockSize * Degree)

LEMMA BlakeInitial ==
  ASSUME BlakeAssumption, Blake2sp_Init
  PROVE  BlakeInv
<1>1. BlockSize * Degree \in Nat \ {0} /\ Degree \in Nat \ {0}
  <2>1. 0 \in Nat /\ Degree \in Nat \ {0}
    BY Sizes
  <2>2. QED  BY <2>1, PlaceIs
<1>2. fed = <<>> /\ fed \in Seq(Byte) /\ Len(fed) = 0
  BY DEF Blake2sp_Init
<1>3. S = [i \in 0..(Degree - 1) |-> [Blake2sp_Init_Spec(i, 0) EXCEPT !.lastNode = (i = Degree - 1)]]
  BY DEF Blake2sp_Init
<1>4. ASSUME NEW i \in 0..(Degree - 1) PROVE LeafHas(S[i], i, fed, 0)
  <2> DEFINE last == IsLast(i)
             u == Part(i, fed, 0)
  <2>1. S[i] = [Blake2sp_Init_Spec(i, 0) EXCEPT !.lastNode = last]
    BY <1>3 DEF IsLast
  <2>2. u = <<>>
    BY <1>2, PartOfLeaf
  <2> HIDE DEF last, u
  <2>3. Absorbed(S[i], <<i, 0>>, last, u, 0)
    BY <2>1, FreshHolds
  <2>4. Len(u) = 0
    BY <2>2
  <2>5. QED  BY <2>3, <2>4 DEF LeafHas, last, u
<1>5. LeavesHave(S, fed, 0)
  <2>1. S = [i \in 0..(Degree - 1) |-> S[i]]
    BY <1>3
  <2>2. QED  BY <1>4, <2>1 DEF LeavesHave
<1>6. bufPos = Len(fed) % (BlockSize * Degree)
  <2>1. bufPos = 0
    BY DEF Blake2sp_Init
  <2> DEFINE P == BlockSize * Degree
  <2> HIDE DEF P
  <2>2. P \in Nat \ {0}
    BY <1>1 DEF P
  <2>3. 0 % P = 0
    BY <2>2
  <2>4. QED  BY <1>2, <2>1, <2>3 DEF P
<1>7. QED  BY <1>2, <1>5, <1>6 DEF BlakeInv

LEMMA BlakeUpdateKeeps ==
  ASSUME BlakeAssumption, BlakeInv, NEW data \in Buffers, Blake2sp_Update(data)
  PROVE  data \in Seq(Byte) /\ BlakeInv'
<1> DEFINE e == fed \o data
           x == Len(fed)
           y == Len(e)
           P == BlockSize * Degree
           dealt == Dealt(S, bufPos, data)
<1>1. data \in Seq(Byte)
  <2>1. PICK n \in 0..(MaxLength - Len(fed)) : data \in [1..n -> Byte]
    BY DEF Buffers
  <2>2. QED  BY <2>1
<1>2. fed \in Seq(Byte) /\ LeavesHave(S, fed, x) /\ bufPos = x % P
  BY DEF BlakeInv
<1>3. fed' = e /\ S' = dealt.leaves /\ bufPos' = dealt.pos
  BY DEF Blake2sp_Update
<1>4. e \in Seq(Byte) /\ Joins(e, fed, data)
  BY <1>1, <1>2, ConcatIs
<1> HIDE DEF e, dealt
<1>5. x \in Nat /\ y = x + Len(data) /\ Len(data) \in Nat /\ y \in Nat
  BY <1>1, <1>2, <1>4 DEF Joins
<1>6. x \in 0..y /\ y \in x..y
  BY <1>5
<1>7. SubSeq(e, x + 1, y) = data
  <2> DEFINE w == SubSeq(e, x + 1, y)
  <2>1. w \in Seq(Byte) /\ Len(w) = y - x /\ \A i \in 1..(y - x) : w[i] = e[x + i]
    <3> HIDE DEF x
    <3>1. QED  BY <1>4, <1>6, PartIs
  <2>2. \A i \in 1..Len(data) : e[x + i] = data[i]
    BY <1>4 DEF Joins
  <2>3. y - x = Len(data)
    BY <1>5
  <2> HIDE DEF w, x, y
  <2>4. Len(w) = Len(data) /\ \A i \in 1..Len(data) : w[i] = data[i]
    BY <2>1, <2>2, <2>3
  <2>5. w = data
    BY <1>1, <2>1, <2>4, SameSequence
  <2>6. QED  BY <2>5 DEF w
<1>8. LeavesHave(S, e, x)
  <2>1. ASSUME NEW i \in 0..(Degree - 1) PROVE LeafHas(S[i], i, e, x)
    <3>1. LeafHas(S[i], i, fed, x)
      BY <1>2 DEF LeavesHave
    <3>2. Part(i, fed, x) = OfLeaf(i, fed)
      BY <1>2, PartOfLeaf
    <3>3. Part(i, e, x) = OfLeaf(i, fed)
      BY <1>1, <1>2, PartBefore DEF e
    <3> HIDE DEF x
    <3>4. QED  BY <3>1, <3>2, <3>3 DEF LeafHas
  <2>2. S = [i \in 0..(Degree - 1) |-> S[i]]
    BY <1>2 DEF LeavesHave
  <2>3. QED  BY <2>1, <2>2 DEF LeavesHave
<1>9. PICK after : /\ LeavesHave(after, e, y)
                   /\ Dealt(S, x % P, SubSeq(e, x + 1, y)) = DealState(after, e, y, y)
  <2> HIDE DEF x
  <2>1. QED  BY <1>4, <1>6, <1>8, DealtIs
<1>10. dealt = DealState(after, e, y, y)
  BY <1>2, <1>7, <1>9 DEF dealt
<1>11. dealt.leaves = after /\ dealt.pos = y % P
  BY <1>10 DEF DealState
<1>12. fed' \in Seq(Byte) /\ LeavesHave(S', fed', Len(fed')) /\ bufPos' = Len(fed') % P
  BY <1>3, <1>4, <1>9, <1>11
<1>13. BlakeInv'
  BY <1>12 DEF BlakeInv
<1>14. QED  BY <1>1, <1>13

(* BLAKE2sp implements StreamHash: for every length of the buffers, every  *)
(* size of a block and of a digest, every number of leaves and every width *)
(* of the counter's words, the digest is BlakeDigest of all bytes fed.     *)
THEOREM BlakeImplemented ==
  ASSUME BlakeAssumption
  PROVE  BlakeSpec => Hash!StreamSpec
<1>1. Blake2sp_Init => BlakeInv
  BY BlakeInitial
<1>2. BlakeInv /\ [BlakeNext]_blakeVars => BlakeInv'
  <2> SUFFICES ASSUME BlakeInv, [BlakeNext]_blakeVars PROVE BlakeInv'
    OBVIOUS
  <2>1. ASSUME NEW data \in Buffers, Blake2sp_Update(data) PROVE BlakeInv'
    BY <2>1, BlakeUpdateKeeps
  <2>2. CASE Blake2sp_Final \/ UNCHANGED blakeVars
    <3>1. S' = S /\ bufPos' = bufPos /\ fed' = fed
      BY <2>2 DEF Blake2sp_Final, blakeVars
    <3>2. QED  BY <3>1 DEF BlakeInv
  <2>3. QED  BY <2>1, <2>2 DEF BlakeNext
<1>3. Blake2sp_Init => Hash!StreamInit
  BY DEF Blake2sp_Init, Hash!StreamInit, BlakeNames
<1>4. BlakeInv /\ [BlakeNext]_blakeVars => [Hash!StreamNext]_<<"BLAKE2sp", fed, out>>
  <2> SUFFICES ASSUME BlakeInv, [BlakeNext]_blakeVars
               PROVE  [Hash!StreamNext]_<<"BLAKE2sp", fed, out>>
    OBVIOUS
  <2>1. ASSUME NEW data \in Buffers, Blake2sp_Update(data) PROVE Hash!Update
    <3>1. data \in Seq(Byte) /\ fed \in Seq(Byte) /\ fed' = fed \o data
      BY <2>1, BlakeUpdateKeeps DEF BlakeInv, Blake2sp_Update
    <3>2. fed' \in Seq(Byte) /\ Hash!IsPrefix(fed, fed')
      <4>1. fed \o data \in Seq(Byte) /\ Len(fed \o data) = Len(fed) + Len(data)
        BY <3>1, ConcatProperties
      <4>2. SubSeq(fed \o data, 1, Len(fed)) = SubSeq(fed, 1, Len(fed))
        <5>1. CASE fed = <<>>
          BY <3>1, <5>1, SubSeqEmpty
        <5>2. CASE fed # <<>>
          <6>1. 1 \in 1..Len(fed) /\ Len(fed) \in 1..Len(fed)
            BY <3>1, <5>2
          <6>2. QED  BY <3>1, <6>1, SubSeqOfConcat1
        <5>3. QED  BY <5>1, <5>2
      <4>3. QED  BY <3>1, <4>1, <4>2 DEF Hash!IsPrefix
    <3>3. out = <<>> /\ out' = out
      BY <2>1 DEF Blake2sp_Update
    <3>4. QED  BY <3>2, <3>3 DEF Hash!Update, BlakeByte
  <2>2. ASSUME Blake2sp_Final PROVE Hash!Finish
    <3>1. fed \in Seq(Byte) /\ LeavesHave(S, fed, Len(fed))
      BY DEF BlakeInv
    <3>2. Blake2s_Final(Root(S)) = BlakeDigest(fed)
      BY <3>1, RootIs
    <3>3. out' = <<BlakeDigest(fed)>>
      BY <2>2, <3>2 DEF Blake2sp_Final
    <3>4. QED  BY <2>2, <3>3 DEF Blake2sp_Final, Hash!Finish, HashDigest
  <2>3. CASE UNCHANGED blakeVars
    BY <2>3 DEF blakeVars
  <2>4. QED  BY <2>1, <2>2, <2>3 DEF BlakeNext, Hash!StreamNext
<1>5. QED  BY <1>1, <1>2, <1>3, <1>4, PTL DEF BlakeSpec, Hash!StreamSpec
=============================================================================

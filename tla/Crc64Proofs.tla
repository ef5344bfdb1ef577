----------------------------- MODULE Crc64Proofs -----------------------------
(***************************************************************************)
(* crc64, with its eight tables and the part it takes byte by byte,        *)
(* computes the CRC by its definition, for words and bytes of any size,    *)
(* any polynomial, any address of a buffer and any cuts of the stream: it  *)
(* implements StreamHash.                                                  *)
(*                                                                         *)
(* The argument is linearity: a step of the division commutes with the     *)
(* exclusive or, so what a table says of a byte can be added to what       *)
(* another says of the next.                                               *)
(***************************************************************************)
EXTENDS Crc64, FoldProofs

CrcNames == {"CRC64"}
CrcByte(name) == Byte
HashDigest(name, data) == CrcDigest(data)

(* StreamHash with this one algorithm.                                     *)
Hash == INSTANCE StreamHash WITH
          Names <- CrcNames, Byte <- CrcByte, Digest <- HashDigest, algorithm <- "CRC64"
-----------------------------------------------------------------------------
(* Words as sets of bit positions.                                         *)
LEMMA Sizes ==
  ASSUME Crc64Assumption
  PROVE  /\ ByteBits \in Nat \ {0} /\ WordBytes \in Nat \ {0} /\ WordBits \in Nat
         /\ ByteBits <= WordBits /\ Poly \in Words /\ Byte \subseteq Words
<1>1. ByteBits \in Nat \ {0} /\ WordBytes \in Nat \ {0} /\ Poly \in Words
  BY DEF Crc64Assumption
<1>2. WordBits \in Nat
  BY <1>1 DEF WordBits
<1>3. ByteBits * (WordBytes - 1) >= 0 /\ WordBits = ByteBits * (WordBytes - 1) + ByteBits
  BY <1>1 DEF WordBits
<1>4. ByteBits <= WordBits
  BY <1>1, <1>2, <1>3
<1>5. Byte \subseteq Words
  BY <1>1, <1>2, <1>4 DEF Byte, Words
<1>6. QED  BY <1>1, <1>2, <1>4, <1>5

LEMMA Xor ==
  /\ \A a, b : SymDiff(a, b) = SymDiff(b, a) /\ SymDiff(a, a) = {}
  /\ \A a, b, c : SymDiff(SymDiff(a, b), c) = SymDiff(a, SymDiff(b, c))
  /\ \A a : SymDiff(a, {}) = a /\ SymDiff({}, a) = a
  /\ \A a, b, i : i \in SymDiff(a, b) <=> ~(i \in a <=> i \in b)
  /\ \A a, b, S : a \in SUBSET S /\ b \in SUBSET S => SymDiff(a, b) \in SUBSET S
  BY DEF SymDiff

LEMMA XorWord == \A a, b \in Words : SymDiff(a, b) \in Words
  BY Xor DEF Words

(* (a + b) + (c + d) = (a + c) + (b + d).                                  *)
LEMMA XorPairs ==
  \A a, b, c, d : SymDiff(SymDiff(a, b), SymDiff(c, d)) = SymDiff(SymDiff(a, c), SymDiff(b, d))
  BY DEF SymDiff

LEMMA Shifted ==
  ASSUME Crc64Assumption, NEW w \in Words, NEW n \in Nat
  PROVE  /\ Right(w, n) \in Words
         /\ \A i : i \in Right(w, n) <=> i \in Nat /\ i + n \in w
         /\ Right(w, 0) = w /\ Right({}, n) = {}
         /\ \A v \in Words : Right(SymDiff(w, v), n) = SymDiff(Right(w, n), Right(v, n))
         /\ \A m \in Nat : Right(Right(w, n), m) = Right(w, n + m)
<1>1. WordBits \in Nat /\ \A x \in Words : x \subseteq 0..(WordBits - 1)
  BY Sizes DEF Words
<1>2. ASSUME NEW x \in Words, NEW k \in Nat, NEW i
      PROVE  i \in Right(x, k) <=> i \in Nat /\ i + k \in x
  <2>1. \A j \in x : j \in Nat
    BY <1>1
  <2>2. ASSUME i \in Right(x, k) PROVE i \in Nat /\ i + k \in x
    <3>1. PICK j \in x : j >= k /\ i = j - k
      BY <2>2 DEF Right
    <3>2. QED  BY <2>1, <3>1
  <2>3. ASSUME i \in Nat, i + k \in x PROVE i \in Right(x, k)
    <3>1. i + k >= k /\ (i + k) - k = i
      BY <2>3
    <3>2. QED  BY <2>3, <3>1 DEF Right
  <2>4. QED  BY <2>2, <2>3
<1>3. ASSUME NEW x \in Words, NEW k \in Nat PROVE Right(x, k) \in Words
  <2>1. \A i \in Right(x, k) : i \in Nat /\ i + k \in 0..(WordBits - 1)
    BY <1>1, <1>2
  <2>2. QED  BY <1>1, <2>1 DEF Words
<1>4. Right(w, 0) = w
  <2>1. \A i \in w : i \in Nat /\ i + 0 = i
    BY <1>1
  <2>2. \A i : i \in Right(w, 0) <=> i \in Nat /\ i + 0 \in w
    BY <1>2
  <2>3. \A i \in Nat : i + 0 = i
    OBVIOUS
  <2>4. \A i : i \in Right(w, 0) <=> i \in w
    BY <2>1, <2>2, <2>3
  <2>5. QED  BY <2>4
<1>5. Right({}, n) = {}
  BY DEF Right
<1>6. ASSUME NEW v \in Words PROVE Right(SymDiff(w, v), n) = SymDiff(Right(w, n), Right(v, n))
  <2>1. SymDiff(w, v) \in Words
    BY Xor DEF Words
  <2>2. \A i : i \in Right(SymDiff(w, v), n) <=> i \in SymDiff(Right(w, n), Right(v, n))
    BY <1>2, <2>1, Xor
  <2>3. QED  BY <2>2
<1>7. ASSUME NEW m \in Nat PROVE Right(Right(w, n), m) = Right(w, n + m)
  <2>1. ASSUME NEW i PROVE i \in Right(Right(w, n), m) <=> i \in Right(w, n + m)
    <3>1. i \in Right(Right(w, n), m) <=> i \in Nat /\ i + m \in Right(w, n)
      BY <1>2, <1>3
    <3>2. i \in Nat => (i + m \in Right(w, n) <=> (i + m) + n \in w)
      BY <1>2
    <3>3. i \in Right(w, n + m) <=> i \in Nat /\ i + (n + m) \in w
      BY <1>2
    <3>4. i \in Nat => (i + m) + n = i + (n + m)
      OBVIOUS
    <3>5. QED  BY <3>1, <3>2, <3>3, <3>4
  <2>2. QED  BY <2>1
<1>8. QED  BY <1>2, <1>3, <1>4, <1>5, <1>6, <1>7

LEMMA LowIs ==
  ASSUME Crc64Assumption, NEW w \in Words
  PROVE  /\ Low(w) \in Byte /\ \A i \in Nat : i \in Low(w) <=> i \in w /\ i < ByteBits
         /\ \A v \in Words : Low(SymDiff(w, v)) = SymDiff(Low(w), Low(v))
         /\ w \ Low(w) \in Words /\ w = SymDiff(Low(w), w \ Low(w))
         /\ Right(Low(w), ByteBits) = {} /\ Right(w \ Low(w), ByteBits) = Right(w, ByteBits)
<1>1. ByteBits \in Nat \ {0} /\ Byte \subseteq Words /\ \A i \in w : i \in Nat
  BY Sizes DEF Words
<1>2. Low(w) \in Byte /\ \A i \in Nat : i \in Low(w) <=> i \in w /\ i < ByteBits
  BY <1>1 DEF Low, Byte
<1>3. \A v \in Words : Low(SymDiff(w, v)) = SymDiff(Low(w), Low(v))
  BY DEF Low, SymDiff
<1>4. w \ Low(w) \in Words /\ w = SymDiff(Low(w), w \ Low(w))
  BY DEF Low, SymDiff, Words
<1>5. Right(Low(w), ByteBits) = {}
  <2>1. \A i : i \in Right(Low(w), ByteBits) <=> i \in Nat /\ i + ByteBits \in Low(w)
    BY <1>1, <1>2, Shifted
  <2>2. \A i \in Nat : i + ByteBits \in Nat /\ ~(i + ByteBits < ByteBits)
    BY <1>1
  <2>3. QED  BY <1>2, <2>1, <2>2
<1>6. Right(w \ Low(w), ByteBits) = Right(w, ByteBits)
  <2>1. Right(w, ByteBits) = SymDiff(Right(Low(w), ByteBits), Right(w \ Low(w), ByteBits))
    BY <1>1, <1>2, <1>4, Shifted
  <2>2. QED  BY <1>5, <2>1, Xor
<1>7. QED  BY <1>2, <1>3, <1>4, <1>5, <1>6

-----------------------------------------------------------------------------
(* One step of the division is linear, and only shifts a word whose lowest *)
(* bit is not set.                                                         *)
LEMMA OneBitIs ==
  ASSUME Crc64Assumption, NEW w \in Words
  PROVE  /\ OneBit(w) \in Words
         /\ \A v \in Words : OneBit(SymDiff(w, v)) = SymDiff(OneBit(w), OneBit(v))
         /\ 0 \notin w => OneBit(w) = Right(w, 1)
<1> DEFINE Carry(x) == IF 0 \in x THEN Poly ELSE {}
<1>1. Poly \in Words /\ {} \in Words /\ 1 \in Nat
  BY Sizes DEF Words
<1>2. \A x \in Words : Right(x, 1) \in Words /\ Carry(x) \in Words
  BY <1>1, Shifted
<1>3. \A x : OneBit(x) = SymDiff(Right(x, 1), Carry(x))
  BY DEF OneBit
<1>4. \A x, y \in Words : SymDiff(x, y) \in Words
  BY XorWord
<1>5. ASSUME NEW v \in Words PROVE OneBit(SymDiff(w, v)) = SymDiff(OneBit(w), OneBit(v))
  <2>1. Right(SymDiff(w, v), 1) = SymDiff(Right(w, 1), Right(v, 1))
    BY <1>1, Shifted
  <2>2. Carry(SymDiff(w, v)) = SymDiff(Carry(w), Carry(v))
    <3>1. 0 \in SymDiff(w, v) <=> ~(0 \in w <=> 0 \in v)
      BY Xor
    <3>2. QED  BY <3>1, Xor
  <2>3. QED
    <3> HIDE DEF Carry
    <3>1. OneBit(SymDiff(w, v)) = SymDiff(SymDiff(Right(w, 1), Right(v, 1)), SymDiff(Carry(w), Carry(v)))
      BY <1>3, <2>1, <2>2
    <3>2. SymDiff(OneBit(w), OneBit(v)) = SymDiff(SymDiff(Right(w, 1), Carry(w)), SymDiff(Right(v, 1), Carry(v)))
      BY <1>3
    <3>3. QED  BY <3>1, <3>2, XorPairs
<1>6. OneBit(w) \in Words
  BY <1>2, <1>3, <1>4
<1>7. 0 \notin w => OneBit(w) = Right(w, 1)
  BY <1>3, Xor
<1>8. QED  BY <1>5, <1>6, <1>7

-----------------------------------------------------------------------------
(* A linear step, taken several times.                                     *)
Linear(E) == \A w, v \in Words : E[SymDiff(w, v)] = SymDiff(E[w], E[v])
Shifts(E, d) == \A w \in Words : (\A i \in w : i >= d) => E[w] = Right(w, d)

Repeats(f, E, N) ==
  /\ f \in [0..N -> [Words -> Words]]
  /\ \A w \in Words : f[0][w] = w
  /\ \A n \in 0..N, w \in Words : n # 0 => f[n][w] = E[f[n - 1][w]]
Times(E, N) == CHOOSE f : Repeats(f, E, N)

LEMMA TimesIs ==
  ASSUME NEW E \in [Words -> Words], NEW N \in Nat
  PROVE  Repeats(Times(E, N), E, N)
<1> DEFINE V == [Words -> Words]
           After(g) == [w \in Words |-> E[g[w]]]
           id == [w \in Words |-> w]
           F == [p \in V \X (1..N) |-> After(p[1])]
<1>1. id \in V /\ \A g \in V : After(g) \in V
  OBVIOUS
<1> HIDE DEF After
<1>2. F \in [V \X (1..N) -> V] /\ \A g \in V, n \in 1..N : F[<<g, n>>] = After(g)
  BY <1>1
<1> HIDE DEF F, V, id
<1>3. PICK f \in [0..N -> V] : Stepwise(f, N, id, F)
  BY <1>1, <1>2, StepsExist
<1>4. \A w \in Words : f[0][w] = w
  BY <1>3 DEF Stepwise, id
<1>5. ASSUME NEW n \in 0..N, NEW w \in Words, n # 0 PROVE f[n][w] = E[f[n - 1][w]]
  <2>1. n - 1 \in 0..N /\ n \in 1..N
    BY <1>5
  <2>2. f[n] = F[<<f[n - 1], n>>] /\ f[n - 1] \in V
    BY <1>3, <1>5, <2>1 DEF Stepwise
  <2>3. f[n] = After(f[n - 1])
    BY <1>2, <2>1, <2>2
  <2>4. QED  BY <2>3 DEF After
<1>6. Repeats(f, E, N)
  BY <1>3, <1>4, <1>5 DEF Repeats, V
<1>7. QED  BY <1>6 DEF Times

LEMMA TimesSteps ==
  ASSUME NEW E \in [Words -> Words], NEW N \in Nat
  PROVE  /\ \A n \in 0..N, w \in Words : Times(E, N)[n][w] \in Words
         /\ \A w \in Words : Times(E, N)[0][w] = w
         /\ \A n \in Nat, w \in Words : n + 1 <= N =>
              n \in 0..N /\ n + 1 \in 0..N /\ Times(E, N)[n + 1][w] = E[Times(E, N)[n][w]]
<1> DEFINE t == Times(E, N)
<1>1. Repeats(t, E, N)
  BY TimesIs
<1> HIDE DEF t
<1>2. t \in [0..N -> [Words -> Words]]
  BY <1>1 DEF Repeats
<1>3. \A n \in 0..N, w \in Words : t[n][w] \in Words
  BY <1>2
<1>4. ASSUME NEW n \in Nat, n + 1 <= N, NEW w \in Words
      PROVE  n \in 0..N /\ n + 1 \in 0..N /\ t[n + 1][w] = E[t[n][w]]
  <2>1. n \in 0..N /\ n + 1 \in 0..N /\ n + 1 # 0 /\ (n + 1) - 1 = n
    BY <1>4
  <2>2. t[n + 1][w] = E[t[(n + 1) - 1][w]]
    BY <1>1, <2>1 DEF Repeats
  <2>3. QED  BY <2>1, <2>2
<1>5. QED  BY <1>1, <1>3, <1>4 DEF Repeats, t

LEMMA TimesLinear ==
  ASSUME NEW E \in [Words -> Words], NEW N \in Nat, Linear(E), NEW m \in 0..N
  PROVE  Linear(Times(E, N)[m])
<1> DEFINE t == Times(E, N)
           Good == {n \in Nat : n <= N => Linear(t[n])}
<1>1. /\ \A n \in 0..N, w \in Words : t[n][w] \in Words
      /\ \A w \in Words : t[0][w] = w
      /\ \A n \in Nat, w \in Words : n + 1 <= N =>
           n \in 0..N /\ n + 1 \in 0..N /\ t[n + 1][w] = E[t[n][w]]
  BY TimesSteps
<1>2. \A w, v \in Words : SymDiff(w, v) \in Words
  BY XorWord
<1> HIDE DEF t
<1>3. 0 \in Good
  BY <1>1, <1>2 DEF Linear
<1>4. ASSUME NEW n \in Nat, n \in Good PROVE n + 1 \in Good
  <2> SUFFICES ASSUME n + 1 <= N, NEW w \in Words, NEW v \in Words
               PROVE  t[n + 1][SymDiff(w, v)] = SymDiff(t[n + 1][w], t[n + 1][v])
    BY DEF Linear
  <2>1. n <= N /\ Linear(t[n])
    BY <1>4
  <2>2. t[n + 1][SymDiff(w, v)] = E[t[n][SymDiff(w, v)]]
    BY <1>1, <1>2
  <2>3. t[n][SymDiff(w, v)] = SymDiff(t[n][w], t[n][v])
    BY <2>1 DEF Linear
  <2>4. n \in 0..N /\ t[n][w] \in Words /\ t[n][v] \in Words
    BY <1>1
  <2>5. E[SymDiff(t[n][w], t[n][v])] = SymDiff(E[t[n][w]], E[t[n][v]])
    BY <2>4 DEF Linear
  <2>6. t[n + 1][w] = E[t[n][w]] /\ t[n + 1][v] = E[t[n][v]]
    BY <1>1
  <2>7. QED  BY <2>2, <2>3, <2>5, <2>6
<1>5. m \in Good
  <2> HIDE DEF Good
  <2>1. QED  BY <1>3, <1>4, NumberInduction
<1>6. QED  BY <1>5 DEF t

(* The first step may be taken apart as well as the last one.              *)
LEMMA TimesFirst ==
  ASSUME NEW E \in [Words -> Words], NEW N \in Nat, NEW m \in Nat, m + 1 <= N, NEW u \in Words
  PROVE  Times(E, N)[m + 1][u] = Times(E, N)[m][E[u]]
<1> DEFINE t == Times(E, N)
           Good == {n \in Nat : n + 1 <= N => t[n + 1][u] = t[n][E[u]]}
<1>1. /\ \A n \in 0..N, w \in Words : t[n][w] \in Words
      /\ \A w \in Words : t[0][w] = w
      /\ \A n \in Nat, w \in Words : n + 1 <= N =>
           n \in 0..N /\ n + 1 \in 0..N /\ t[n + 1][w] = E[t[n][w]]
  BY TimesSteps
<1>2. E[u] \in Words
  OBVIOUS
<1> HIDE DEF t
<1>3. 0 \in Good
  <2> SUFFICES ASSUME 0 + 1 <= N PROVE t[0 + 1][u] = t[0][E[u]]
    OBVIOUS
  <2>1. t[0 + 1][u] = E[t[0][u]]
    BY <1>1
  <2>2. QED  BY <1>1, <1>2, <2>1
<1>4. ASSUME NEW n \in Nat, n \in Good PROVE n + 1 \in Good
  <2> SUFFICES ASSUME (n + 1) + 1 <= N PROVE t[(n + 1) + 1][u] = t[n + 1][E[u]]
    OBVIOUS
  <2>1. n + 1 \in Nat /\ n + 1 <= N
    OBVIOUS
  <2>2. t[(n + 1) + 1][u] = E[t[n + 1][u]]
    BY <1>1, <2>1
  <2>3. t[n + 1][u] = t[n][E[u]]
    BY <1>4, <2>1
  <2>4. t[n + 1][E[u]] = E[t[n][E[u]]]
    BY <1>1, <1>2, <2>1
  <2>5. QED  BY <2>2, <2>3, <2>4
<1>5. m \in Good
  <2> HIDE DEF Good
  <2>1. QED  BY <1>3, <1>4, NumberInduction
<1>6. QED  BY <1>5 DEF t

(* Nothing but a shift happens while only zeros are shifted out.           *)
LEMMA TimesShifts ==
  ASSUME Crc64Assumption, NEW E \in [Words -> Words], NEW N \in Nat, NEW d \in Nat,
         Shifts(E, d), NEW m \in 0..N
  PROVE  Shifts(Times(E, N)[m], m * d)
<1> DEFINE t == Times(E, N)
           Good == {n \in Nat : n <= N => Shifts(t[n], n * d)}
<1>1. /\ \A n \in 0..N, w \in Words : t[n][w] \in Words
      /\ \A w \in Words : t[0][w] = w
      /\ \A n \in Nat, w \in Words : n + 1 <= N =>
           n \in 0..N /\ n + 1 \in 0..N /\ t[n + 1][w] = E[t[n][w]]
  BY TimesSteps
<1>2. \A w \in Words : \A i \in w : i \in Nat
  BY Sizes DEF Words
<1> HIDE DEF t
<1>3. 0 \in Good
  <2>1. 0 * d = 0
    OBVIOUS
  <2>2. \A w \in Words : Right(w, 0) = w
    BY Shifted
  <2>3. QED  BY <1>1, <2>1, <2>2 DEF Shifts
<1>4. ASSUME NEW n \in Nat, n \in Good PROVE n + 1 \in Good
  <2> DEFINE e == n * d
  <2>0. e \in Nat /\ (n + 1) * d = e + d
    OBVIOUS
  <2> HIDE DEF e
  <2> SUFFICES ASSUME n + 1 <= N, NEW w \in Words, \A i \in w : i >= e + d
               PROVE  t[n + 1][w] = Right(w, e + d)
    BY <2>0 DEF Shifts
  <2>1. n <= N /\ Shifts(t[n], e)
    BY <1>4 DEF e
  <2>2. \A i \in w : i >= e
    BY <1>2, <2>0
  <2>3. t[n][w] = Right(w, e)
    BY <2>1, <2>2 DEF Shifts
  <2>4. Right(w, e) \in Words /\ \A i \in Right(w, e) : i >= d
    <3>1. Right(w, e) \in Words /\ \A i \in Right(w, e) : i \in Nat /\ i + e \in w
      BY <2>0, Shifted
    <3>2. \A i \in Right(w, e) : i + e >= e + d
      BY <3>1
    <3>3. QED  BY <2>0, <3>1, <3>2
  <2>5. E[Right(w, e)] = Right(Right(w, e), d)
    BY <2>4 DEF Shifts
  <2>6. Right(Right(w, e), d) = Right(w, e + d)
    BY <2>0, Shifted
  <2>7. QED  BY <1>1, <2>3, <2>5, <2>6
<1>5. m \in Good
  <2> HIDE DEF Good
  <2>1. QED  BY <1>3, <1>4, NumberInduction
<1>6. QED  BY <1>5 DEF t
-----------------------------------------------------------------------------
(* The step for a bit, repeated for the bits of a byte, and the step for a *)
(* byte, repeated for those of a word.                                     *)
BitStep == [w \in Words |-> OneBit(w)]
BitSteps == Times(BitStep, ByteBits)
ByteStep == BitSteps[ByteBits]
ByteSteps == Times(ByteStep, WordBytes)

LEMMA BitStepIs ==
  ASSUME Crc64Assumption
  PROVE  /\ BitStep \in [Words -> Words] /\ Linear(BitStep) /\ Shifts(BitStep, 1)
         /\ ByteBits \in Nat
         /\ \A n \in 0..ByteBits : Linear(BitSteps[n]) /\ Shifts(BitSteps[n], n)
<1>1. BitStep \in [Words -> Words]
  BY OneBitIs DEF BitStep
<1>2. \A w, v \in Words : SymDiff(w, v) \in Words
  BY XorWord
<1>3. Linear(BitStep)
  BY <1>2, OneBitIs DEF Linear, BitStep
<1>4. Shifts(BitStep, 1)
  <2>1. SUFFICES ASSUME NEW w \in Words, \A i \in w : i >= 1 PROVE OneBit(w) = Right(w, 1)
    BY DEF Shifts, BitStep
  <2>2. 0 \notin w
    BY <2>1
  <2>3. QED  BY <2>2, OneBitIs
<1>5. ByteBits \in Nat
  BY Sizes
<1>6. \A n \in 0..ByteBits : Linear(BitSteps[n])
  BY <1>1, <1>3, <1>5, TimesLinear DEF BitSteps
<1>7. \A n \in 0..ByteBits : Shifts(BitSteps[n], n)
  <2>1. \A n \in 0..ByteBits : Shifts(BitSteps[n], n * 1)
    BY <1>1, <1>4, <1>5, TimesShifts DEF BitSteps
  <2>2. \A n \in 0..ByteBits : n * 1 = n
    BY <1>5
  <2>3. QED  BY <2>1, <2>2
<1>8. QED  BY <1>1, <1>3, <1>4, <1>5, <1>6, <1>7

LEMMA ByteStepIs ==
  ASSUME Crc64Assumption
  PROVE  /\ ByteStep \in [Words -> Words] /\ Linear(ByteStep) /\ Shifts(ByteStep, ByteBits)
         /\ WordBytes \in Nat
         /\ \A n \in 0..WordBytes : /\ Linear(ByteSteps[n])
                                    /\ Shifts(ByteSteps[n], n * ByteBits)
<1>1. ByteBits \in Nat /\ ByteBits \in 0..ByteBits /\ WordBytes \in Nat
  BY Sizes
<1>2. ByteStep \in [Words -> Words]
  BY <1>1, BitStepIs, TimesIs DEF ByteStep, BitSteps, Repeats
<1>3. Linear(ByteStep) /\ Shifts(ByteStep, ByteBits)
  BY <1>1, BitStepIs DEF ByteStep
<1>4. \A n \in 0..WordBytes : Linear(ByteSteps[n])
  BY <1>1, <1>2, <1>3, TimesLinear DEF ByteSteps
<1>5. \A n \in 0..WordBytes : Shifts(ByteSteps[n], n * ByteBits)
  BY <1>1, <1>2, <1>3, TimesShifts DEF ByteSteps
<1>6. QED  BY <1>1, <1>2, <1>3, <1>4, <1>5

(* What the step for a byte does to a word: only its lowest byte matters,  *)
(* the rest is shifted.                                                    *)
LEMMA ByteStepSplits ==
  ASSUME Crc64Assumption, NEW w \in Words
  PROVE  ByteStep[w] = SymDiff(ByteStep[Low(w)], Right(w, ByteBits))
<1> DEFINE a == Low(w)
           b == w \ Low(w)
<1>1. a \in Words /\ b \in Words /\ w = SymDiff(a, b) /\ Right(b, ByteBits) = Right(w, ByteBits)
  BY LowIs, Sizes
<1>2. \A i \in b : i >= ByteBits
  <2>1. \A i \in b : i \in Nat /\ i \notin Low(w) /\ i \in w
    BY Sizes DEF Words
  <2>2. ByteBits \in Nat /\ \A i \in Nat : i \in Low(w) <=> i \in w /\ i < ByteBits
    BY LowIs, Sizes
  <2> HIDE DEF b
  <2>3. QED  BY <2>1, <2>2
<1> HIDE DEF a, b
<1>3. ByteStep[b] = Right(w, ByteBits)
  BY <1>1, <1>2, ByteStepIs DEF Shifts
<1>4. ByteStep[w] = SymDiff(ByteStep[a], ByteStep[b])
  BY <1>1, ByteStepIs DEF Linear
<1>5. QED  BY <1>3, <1>4 DEF a

-----------------------------------------------------------------------------
(* The tables hold these steps: the first one byte's, each further one     *)
(* byte more.                                                              *)
BitsRow(g, n) == [i \in Byte |-> IF n = 0 THEN i ELSE OneBit(g[n - 1][i])]
LEMMA BitsChosen == Bits = CHOOSE g : g = [n \in 0..ByteBits |-> BitsRow(g, n)]
  BY DEF Bits, BitsRow

LEMMA BitsAre ==
  ASSUME Crc64Assumption
  PROVE  \A i \in Byte : Bits[ByteBits][i] = ByteStep[i]
<1> DEFINE N == ByteBits
           s == BitSteps
           f == [n \in 0..N |-> [i \in Byte |-> s[n][i]]]
<1>1. N \in Nat /\ Byte \subseteq Words
  BY Sizes
<1>2. /\ \A n \in 0..N, w \in Words : s[n][w] \in Words
      /\ \A w \in Words : s[0][w] = w
      /\ \A n \in Nat, w \in Words : n + 1 <= N =>
           n \in 0..N /\ n + 1 \in 0..N /\ s[n + 1][w] = OneBit(s[n][w])
  <2>1. /\ \A n \in 0..N, w \in Words : s[n][w] \in Words
        /\ \A w \in Words : s[0][w] = w
        /\ \A n \in Nat, w \in Words : n + 1 <= N =>
             n \in 0..N /\ n + 1 \in 0..N /\ s[n + 1][w] = BitStep[s[n][w]]
    BY <1>1, BitStepIs, TimesSteps DEF BitSteps
  <2>2. \A w \in Words : BitStep[w] = OneBit(w)
    BY DEF BitStep
  <2>3. QED  BY <2>1, <2>2
<1> HIDE DEF N, s
<1>3. ASSUME NEW n \in 0..N PROVE f[n] = BitsRow(f, n)
  <2>1. CASE n = 0
    <3>1. \A i \in Byte : s[0][i] = i
      BY <1>1, <1>2
    <3>2. QED  BY <2>1, <3>1 DEF BitsRow
  <2>2. CASE n # 0
    <3>1. n - 1 \in 0..N /\ n - 1 \in Nat /\ (n - 1) + 1 = n
      BY <1>1, <2>2
    <3>2. \A i \in Byte : s[n][i] = OneBit(s[n - 1][i])
      BY <1>1, <1>2, <3>1
    <3>3. f[n - 1] = [i \in Byte |-> s[n - 1][i]]
      BY <3>1
    <3>4. QED  BY <2>2, <3>2, <3>3 DEF BitsRow
  <2>3. QED  BY <2>1, <2>2
<1>4. f = [n \in 0..N |-> BitsRow(f, n)]
  BY <1>3
<1> HIDE DEF f
<1>5. Bits = [n \in 0..N |-> BitsRow(Bits, n)]
  BY <1>4, BitsChosen DEF N
<1>6. \A n \in 0..N : Bits[n] = BitsRow(Bits, n)
  BY <1>5
<1> DEFINE Good == {n \in Nat : n <= N => \A i \in Byte : Bits[n][i] = s[n][i]}
<1>7. 0 \in Good
  <2>1. Bits[0] = BitsRow(Bits, 0)
    BY <1>1, <1>6
  <2>2. \A i \in Byte : Bits[0][i] = i
    BY <2>1 DEF BitsRow
  <2>3. QED  BY <1>1, <1>2, <2>2
<1>8. ASSUME NEW n \in Nat, n \in Good PROVE n + 1 \in Good
  <2> SUFFICES ASSUME n + 1 <= N, NEW i \in Byte PROVE Bits[n + 1][i] = s[n + 1][i]
    OBVIOUS
  <2>1. n + 1 \in 0..N /\ n + 1 # 0 /\ (n + 1) - 1 = n /\ n <= N
    BY <1>1
  <2>2. Bits[n + 1] = BitsRow(Bits, n + 1)
    BY <1>6, <2>1
  <2>3. Bits[n + 1][i] = OneBit(Bits[n][i])
    BY <2>1, <2>2 DEF BitsRow
  <2>4. QED  BY <1>1, <1>2, <1>8, <2>1, <2>3
<1>9. N \in Good
  <2> HIDE DEF Good
  <2>1. QED  BY <1>1, <1>7, <1>8, NumberInduction
<1>10. QED  BY <1>1, <1>9 DEF N, s, ByteStep

TableRow(g, slice) ==
  [i \in Byte |->
    IF slice = 0 THEN Bits[ByteBits][i]
    ELSE LET w == g[slice - 1][i] IN SymDiff(Right(w, ByteBits), Bits[ByteBits][Low(w)])]
LEMMA TableChosen == crc_table = CHOOSE g : g = [slice \in 0..(WordBytes - 1) |-> TableRow(g, slice)]
  BY DEF crc_table, TableRow

LEMMA TableIs ==
  ASSUME Crc64Assumption
  PROVE  \A slice \in 0..(WordBytes - 1), i \in Byte : crc_table[slice][i] = ByteSteps[slice + 1][i]
<1> DEFINE N == WordBytes
           s == ByteSteps
           f == [n \in 0..(N - 1) |-> [i \in Byte |-> s[n + 1][i]]]
<1>1. N \in Nat \ {0} /\ Byte \subseteq Words
  BY Sizes
<1>2. /\ \A n \in 0..N, w \in Words : s[n][w] \in Words
      /\ \A w \in Words : s[0][w] = w
      /\ \A n \in Nat, w \in Words : n + 1 <= N =>
           n \in 0..N /\ n + 1 \in 0..N /\ s[n + 1][w] = ByteStep[s[n][w]]
  BY <1>1, ByteStepIs, TimesSteps DEF ByteSteps
<1> HIDE DEF N, s
<1>3. \A w \in Words : ByteStep[w] = SymDiff(Right(w, ByteBits), Bits[ByteBits][Low(w)])
  <2>1. \A w \in Words : Low(w) \in Byte
    BY LowIs
  <2>2. \A w \in Words : ByteStep[w] = SymDiff(ByteStep[Low(w)], Right(w, ByteBits))
    BY ByteStepSplits
  <2>3. QED  BY <2>1, <2>2, BitsAre, Xor
<1>4. \A i \in Byte : s[1][i] = Bits[ByteBits][i]
  <2>1. \A i \in Byte : s[0 + 1][i] = ByteStep[s[0][i]]
    BY <1>1, <1>2
  <2>2. QED  BY <1>1, <1>2, <2>1, BitsAre
(* A row of the table from the one before.                                 *)
<1>5. ASSUME NEW n \in 0..(N - 1), NEW g,
             n # 0 => \A i \in Byte : g[n - 1][i] = s[n][i]
      PROVE  TableRow(g, n) = [i \in Byte |-> s[n + 1][i]]
  <2>1. CASE n = 0
    BY <1>4, <2>1 DEF TableRow
  <2>2. CASE n # 0
    <3>1. n \in Nat /\ n + 1 <= N /\ n \in 0..N
      BY <1>1
    <3>2. \A i \in Byte : s[n][i] \in Words /\ s[n + 1][i] = ByteStep[s[n][i]]
      BY <1>1, <1>2, <3>1
    <3>3. \A i \in Byte : s[n + 1][i] = SymDiff(Right(s[n][i], ByteBits), Bits[ByteBits][Low(s[n][i])])
      BY <1>3, <3>2
    <3>4. QED  BY <1>5, <2>2, <3>3 DEF TableRow
  <2>3. QED  BY <2>1, <2>2
<1>6. ASSUME NEW n \in 0..(N - 1) PROVE f[n] = TableRow(f, n)
  <2>1. n # 0 => \A i \in Byte : f[n - 1][i] = s[n][i]
    <3>1. n # 0 => n - 1 \in 0..(N - 1) /\ (n - 1) + 1 = n
      BY <1>1
    <3>2. QED  BY <3>1
  <2>2. f[n] = [i \in Byte |-> s[n + 1][i]]
    OBVIOUS
  <2> HIDE DEF f
  <2>3. QED  BY <1>5, <2>1, <2>2
<1>7. f = [n \in 0..(N - 1) |-> TableRow(f, n)]
  BY <1>6
<1> HIDE DEF f
<1> DEFINE t == crc_table
<1>8. t = [n \in 0..(N - 1) |-> TableRow(t, n)]
  BY <1>7, TableChosen DEF N
<1> HIDE DEF t
<1>9. \A n \in 0..(N - 1) : t[n] = TableRow(t, n)
  BY <1>8
<1> DEFINE Good == {n \in Nat : n <= N - 1 => \A i \in Byte : t[n][i] = s[n + 1][i]}
<1>10. 0 \in Good
  <2>1. 0 \in 0..(N - 1) /\ 0 + 1 = 1
    BY <1>1
  <2>2. t[0] = [i \in Byte |-> s[0 + 1][i]]
    BY <1>5, <1>9, <2>1
  <2>3. QED  BY <2>2
<1>11. ASSUME NEW n \in Nat, n \in Good PROVE n + 1 \in Good
  <2> SUFFICES ASSUME n + 1 <= N - 1 PROVE \A i \in Byte : t[n + 1][i] = s[(n + 1) + 1][i]
    OBVIOUS
  <2>1. n + 1 \in 0..(N - 1) /\ (n + 1) - 1 = n /\ n <= N - 1
    BY <1>1
  <2>2. \A i \in Byte : t[(n + 1) - 1][i] = s[n + 1][i]
    BY <1>11, <2>1
  <2>3. TableRow(t, n + 1) = [i \in Byte |-> s[(n + 1) + 1][i]]
    BY <1>5, <2>1, <2>2
  <2>4. t[n + 1] = TableRow(t, n + 1)
    BY <1>9, <2>1
  <2>5. QED  BY <2>3, <2>4
<1>12. Nat \subseteq Good
  <2> HIDE DEF Good
  <2>1. QED  BY <1>10, <1>11, NumberInduction
<1>13. QED  BY <1>1, <1>12 DEF N, s, t

(* A byte is put into the register by adding it and taking its steps.      *)
LEMMA PutByteIs ==
  ASSUME Crc64Assumption, NEW w \in Words, NEW byte \in Byte
  PROVE  PutByte(w, byte) = ByteStep[SymDiff(w, byte)] /\ PutByte(w, byte) \in Words
<1> DEFINE x == SymDiff(w, byte)
<1>1. byte \in Words /\ x \in Words /\ Low(x) \in Byte /\ Byte \subseteq Words
  <2>1. byte \in Words /\ Byte \subseteq Words
    BY Sizes
  <2>2. x \in Words
    BY <2>1, Xor DEF Words
  <2> HIDE DEF x
  <2>3. QED  BY <2>1, <2>2, LowIs
<1>2. Right(x, ByteBits) = Right(w, ByteBits)
  <2>1. Low(byte) = byte
    BY DEF Low, Byte
  <2>2. Right(byte, ByteBits) = {}
    BY <1>1, <2>1, LowIs
  <2>3. Right(x, ByteBits) = SymDiff(Right(w, ByteBits), Right(byte, ByteBits))
    BY <1>1, Shifted, Sizes
  <2>4. QED  BY <2>2, <2>3, Xor
<1>3. ByteStep[x] = SymDiff(ByteStep[Low(x)], Right(x, ByteBits))
  BY <1>1, ByteStepSplits
<1>4. crc_table[0][Low(x)] = ByteStep[Low(x)]
  <2>1. 0 \in 0..(WordBytes - 1) /\ 0 + 1 <= WordBytes
    BY Sizes
  <2>2. crc_table[0][Low(x)] = ByteSteps[0 + 1][Low(x)]
    BY <1>1, <2>1, TableIs
  <2>3. ByteSteps[0 + 1][Low(x)] = ByteStep[Low(x)]
    <3> DEFINE t == ByteSteps
    <3>1. /\ \A y \in Words : t[0][y] = y
          /\ \A n \in Nat, y \in Words : n + 1 <= WordBytes => t[n + 1][y] = ByteStep[t[n][y]]
      BY ByteStepIs, TimesSteps DEF ByteSteps
    <3> HIDE DEF t, x
    <3>2. Low(x) \in Words
      BY <1>1
    <3>3. t[0 + 1][Low(x)] = ByteStep[t[0][Low(x)]]
      BY <2>1, <3>1, <3>2
    <3>4. QED  BY <3>1, <3>2, <3>3 DEF t
  <2>4. QED  BY <2>2, <2>3
<1>5. ByteStep[x] \in Words
  BY <1>1, ByteStepIs
<1>6. QED  BY <1>2, <1>3, <1>4, <1>5 DEF PutByte

(* Taking a word's digits of some bits one after the other, each with a    *)
(* step, comes to taking the word at once: what is not taken yet is the    *)
(* difference.                                                             *)
Takes(f, E, N, d, x) ==
  /\ \A n \in 0..N : f[n] \in Words
  /\ \A n \in Nat : n + 1 <= N =>
       f[n + 1] = E[SymDiff(f[n], Right(x, n * d) \cap (0..(d - 1)))]

LEMMA DigitsTaken ==
  ASSUME Crc64Assumption, NEW E \in [Words -> Words], NEW N \in Nat, NEW d \in Nat,
         Linear(E), Shifts(E, d), NEW x \in Words, NEW f, Takes(f, E, N, d, x)
  PROVE  SymDiff(f[N], Right(x, N * d)) = Times(E, N)[N][SymDiff(f[0], x)]
<1> DEFINE t == Times(E, N)
           u == SymDiff(f[0], x)
           Good == {n \in Nat : n <= N => SymDiff(f[n], Right(x, n * d)) = t[n][u]}
<1>1. /\ \A n \in 0..N, w \in Words : t[n][w] \in Words
      /\ \A w \in Words : t[0][w] = w
      /\ \A n \in Nat, w \in Words : n + 1 <= N =>
           n \in 0..N /\ n + 1 \in 0..N /\ t[n + 1][w] = E[t[n][w]]
  BY TimesSteps
<1>2. \A w, v \in Words : SymDiff(w, v) \in Words
  BY XorWord
<1>3. u \in Words
  <2>1. f[0] \in Words
    BY DEF Takes
  <2>2. QED  BY <1>2, <2>1
<1> HIDE DEF t, u
<1>4. 0 \in Good
  <2>1. 0 * d = 0 /\ Right(x, 0) = x
    BY Shifted
  <2>2. t[0][u] = u
    BY <1>1, <1>3
  <2>3. QED  BY <2>1, <2>2 DEF u
<1>5. ASSUME NEW n \in Nat, n \in Good PROVE n + 1 \in Good
  <2> SUFFICES ASSUME n + 1 <= N PROVE SymDiff(f[n + 1], Right(x, (n + 1) * d)) = t[n + 1][u]
    OBVIOUS
  <2> DEFINE r == Right(x, n * d)
             a == r \cap (0..(d - 1))
             b == r \ a
             e == n * d
  <2>1. e \in Nat /\ (n + 1) * d = e + d /\ n \in 0..N /\ n <= N
    BY <1>1
  <2> HIDE DEF e
  <2>2. r \in Words /\ Right(r, d) = Right(x, e + d)
    BY <2>1, Shifted DEF e
  <2> HIDE DEF r
  <2>3. a \in Words /\ b \in Words /\ r = SymDiff(a, b)
    BY <2>2 DEF Words, SymDiff
  <2>4. \A i \in b : i >= d
    <3>1. \A i \in r : i \in Nat
      BY <2>2, Sizes DEF Words
    <3>2. QED  BY <3>1
  <2>5. \A i \in a : i < d
    <3>1. \A i \in 0..(d - 1) : i < d
      OBVIOUS
    <3>2. QED  BY <3>1
  <2> HIDE DEF b
  <2>6. Right(a, d) = {}
    <3>1. \A i : i \in Right(a, d) <=> i \in Nat /\ i + d \in a
      <4> HIDE DEF a
      <4>1. QED  BY <2>3, Shifted
    <3>2. \A i \in Nat : ~(i + d < d)
      OBVIOUS
    <3> HIDE DEF a
    <3>3. QED  BY <2>5, <3>1, <3>2
  <2>7. f[n + 1] = E[SymDiff(f[n], a)] /\ f[n] \in Words
    BY <2>1 DEF r, Takes
  <2> HIDE DEF a
  <2>8. E[b] = Right(r, d)
    <3>1. E[b] = Right(b, d)
      BY <2>3, <2>4 DEF Shifts
    <3>2. Right(r, d) = SymDiff(Right(a, d), Right(b, d))
      BY <2>3, Shifted
    <3>3. QED  BY <2>6, <3>1, <3>2, Xor
  <2>9. SymDiff(f[n], r) = SymDiff(SymDiff(f[n], a), b)
    BY <2>3, Xor
  <2>10. E[SymDiff(f[n], r)] = SymDiff(f[n + 1], Right(r, d))
    <3>1. SymDiff(f[n], a) \in Words
      BY <1>2, <2>3, <2>7
    <3>2. E[SymDiff(SymDiff(f[n], a), b)] = SymDiff(E[SymDiff(f[n], a)], E[b])
      BY <2>3, <3>1 DEF Linear
    <3>3. QED  BY <2>7, <2>8, <2>9, <3>2
  <2>11. SymDiff(f[n], r) = t[n][u]
    BY <1>5, <2>1 DEF r
  <2>12. t[n + 1][u] = E[t[n][u]]
    BY <1>1, <1>3
  <2>13. QED  BY <2>1, <2>2, <2>10, <2>11, <2>12
<1>6. Nat \subseteq Good
  <2> HIDE DEF Good
  <2>1. QED  BY <1>4, <1>5, NumberInduction
<1>7. QED  BY <1>6 DEF t, u
-----------------------------------------------------------------------------
(* The bytes put into the register, one after the other.                   *)
Puts(f, w, s) ==
  /\ f[0] = w
  /\ \A n \in 0..Len(s) : f[n] \in Words
  /\ \A n \in Nat : n + 1 <= Len(s) => f[n + 1] = PutByte(f[n], s[n + 1])
Putting(w, bytes) ==
  CHOOSE g : g = [n \in 0..Len(bytes) |-> IF n = 0 THEN w ELSE PutByte(g[n - 1], bytes[n])]
LEMMA PutChosen == \A w, bytes : PutBytes(w, bytes) = Putting(w, bytes)[Len(bytes)]
  BY DEF PutBytes, Putting

LEMMA PuttingIs ==
  ASSUME Crc64Assumption, NEW w \in Words, NEW s \in Seq(Byte)
  PROVE  Puts(Putting(w, s), w, s)
<1> DEFINE N == Len(s)
           F == [p \in Words \X (1..N) |-> PutByte(p[1], s[p[2]])]
           Row(g) == [n \in 0..N |-> IF n = 0 THEN w ELSE PutByte(g[n - 1], s[n])]
<1>1. N \in Nat /\ \A n \in 1..N : s[n] \in Byte
  OBVIOUS
<1>2. \A v \in Words, n \in 1..N : PutByte(v, s[n]) \in Words
  BY <1>1, PutByteIs
<1> HIDE DEF N
<1>3. F \in [Words \X (1..N) -> Words] /\ \A v \in Words, n \in 1..N : F[<<v, n>>] = PutByte(v, s[n])
  BY <1>2
<1> HIDE DEF F
<1>4. PICK f \in [0..N -> Words] : Stepwise(f, N, w, F)
  BY <1>1, <1>3, StepsExist
<1>5. ASSUME NEW n \in 0..N PROVE f[n] = IF n = 0 THEN w ELSE PutByte(f[n - 1], s[n])
  <2>1. CASE n = 0
    BY <1>4, <2>1 DEF Stepwise
  <2>2. CASE n # 0
    <3>1. n \in 1..N /\ n - 1 \in 0..N
      BY <1>1, <2>2
    <3>2. f[n] = F[<<f[n - 1], n>>] /\ f[n - 1] \in Words
      BY <1>4, <2>2, <3>1 DEF Stepwise
    <3>3. QED  BY <1>3, <2>2, <3>1, <3>2
  <2>3. QED  BY <2>1, <2>2
<1>6. f = Row(f)
  <2>1. f = [n \in 0..N |-> f[n]]
    BY <1>4
  <2>2. QED  BY <1>5, <2>1
<1> DEFINE p == Putting(w, s)
<1>7. p = CHOOSE g : g = Row(g)
  BY DEF Putting, N
<1> HIDE DEF p
<1>8. p = Row(p)
  BY <1>6, <1>7
<1>9. \A n \in 0..N : p[n] = IF n = 0 THEN w ELSE PutByte(p[n - 1], s[n])
  BY <1>8
<1>10. \A n \in Nat : n + 1 <= N => p[n + 1] = PutByte(p[n], s[n + 1])
  <2>1. \A n \in Nat : n + 1 <= N => n + 1 \in 0..N /\ n + 1 # 0 /\ (n + 1) - 1 = n
    BY <1>1
  <2>2. QED  BY <1>9, <2>1
<1> DEFINE Good == {n \in Nat : n <= N => p[n] \in Words}
<1>11. p[0] = w
  BY <1>1, <1>9
<1>12. 0 \in Good
  BY <1>11
<1>13. ASSUME NEW n \in Nat, n \in Good PROVE n + 1 \in Good
  <2> SUFFICES ASSUME n + 1 <= N PROVE p[n + 1] \in Words
    OBVIOUS
  <2>1. n <= N /\ n + 1 \in 1..N
    BY <1>1
  <2>2. QED  BY <1>2, <1>10, <1>13, <2>1
<1>14. Nat \subseteq Good
  <2> HIDE DEF Good
  <2>1. QED  BY <1>12, <1>13, NumberInduction
<1>15. QED  BY <1>10, <1>11, <1>14 DEF Puts, p, N

(* There is one way to put the first N of them.                            *)
Alike(f, g, s, N) ==
  /\ f[0] = g[0]
  /\ \A n \in Nat : n + 1 <= N => /\ f[n + 1] = PutByte(f[n], s[n + 1])
                                  /\ g[n + 1] = PutByte(g[n], s[n + 1])

LEMMA PutsSame ==
  ASSUME NEW s, NEW N \in Nat, NEW f, NEW g, Alike(f, g, s, N)
  PROVE  f[N] = g[N]
<1>0. /\ f[0] = g[0]
      /\ \A n \in Nat : n + 1 <= N => /\ f[n + 1] = PutByte(f[n], s[n + 1])
                                      /\ g[n + 1] = PutByte(g[n], s[n + 1])
  BY DEF Alike
<1> DEFINE Good == {n \in Nat : n <= N => f[n] = g[n]}
<1>1. 0 \in Good
  BY <1>0
<1>2. ASSUME NEW n \in Nat, n \in Good PROVE n + 1 \in Good
  <2> SUFFICES ASSUME n + 1 <= N PROVE f[n + 1] = g[n + 1]
    OBVIOUS
  <2>1. n <= N
    OBVIOUS
  <2>2. QED  BY <1>0, <1>2, <2>1
<1>3. Nat \subseteq Good
  <2> HIDE DEF Good
  <2>1. QED  BY <1>1, <1>2, NumberInduction
<1>4. QED  BY <1>3

LEMMA PutJoined ==
  ASSUME Crc64Assumption, NEW w \in Words, NEW a \in Seq(Byte), NEW b \in Seq(Byte)
  PROVE  /\ PutBytes(w, a) \in Words
         /\ PutBytes(w, a \o b) = PutBytes(PutBytes(w, a), b)
         /\ PutBytes(w, <<>>) = w
<1> DEFINE c == a \o b
           l == Len(a)
           m == Len(b)
           q == Putting(w, a)
           p == Putting(w, c)
           v == q[l]
           r == Putting(v, b)
           h == [n \in 0..m |-> p[l + n]]
<1>1. l \in Nat /\ m \in Nat /\ c \in Seq(Byte) /\ Joins(c, a, b)
  BY ConcatIs
<1> HIDE DEF c
<1>2. Puts(q, w, a) /\ Puts(p, w, c)
  BY <1>1, PuttingIs
<1>3. v \in Words
  BY <1>1, <1>2 DEF Puts
<1> HIDE DEF q, p, v
<1>4. Puts(r, v, b)
  BY <1>3, PuttingIs
<1> HIDE DEF r
<1>5. Len(c) = l + m
  BY <1>1 DEF Joins
<1>6. p[l] = v
  <2>1. \A n \in Nat : n + 1 <= l => c[n + 1] = a[n + 1]
    <3>1. \A n \in Nat : n + 1 <= l => n + 1 \in 1..l
      OBVIOUS
    <3>2. QED  BY <1>1, <3>1 DEF Joins
  <2>2. \A n \in Nat : n + 1 <= l => n + 1 <= Len(c)
    BY <1>1, <1>5
  <2>3. \A n \in Nat : n + 1 <= l => /\ p[n + 1] = PutByte(p[n], c[n + 1])
                                     /\ q[n + 1] = PutByte(q[n], c[n + 1])
    BY <1>2, <2>1, <2>2 DEF Puts
  <2>4. p[0] = q[0]
    BY <1>2 DEF Puts
  <2> HIDE DEF l
  <2>5. p[l] = q[l]
    <3>1. l \in Nat
      BY <1>1
    <3>2. Alike(p, q, c, l)
      BY <2>3, <2>4 DEF Alike
    <3>3. QED  BY <3>1, <3>2, PutsSame
  <2>6. QED  BY <2>5 DEF v
<1>7. h[m] = r[m]
  <2>1. ASSUME NEW n \in Nat, n + 1 <= m PROVE h[n + 1] = PutByte(h[n], b[n + 1])
    <3>1. n \in 0..m /\ n + 1 \in 0..m /\ n + 1 \in 1..m /\ l + n \in Nat /\ l + (n + 1) = (l + n) + 1
      BY <1>1, <2>1
    <3>2. (l + n) + 1 <= Len(c)
      BY <1>1, <1>5, <2>1
    <3>3. p[(l + n) + 1] = PutByte(p[l + n], c[(l + n) + 1])
      BY <1>2, <3>1, <3>2 DEF Puts
    <3>4. c[l + (n + 1)] = b[n + 1]
      BY <1>1, <3>1 DEF Joins
    <3>5. h[n + 1] = p[(l + n) + 1] /\ h[n] = p[l + n]
      BY <3>1
    <3>6. QED  BY <3>1, <3>3, <3>4, <3>5
  <2>2. h[0] = v
    <3>1. 0 \in 0..m /\ l + 0 = l
      BY <1>1
    <3>2. QED  BY <1>6, <3>1
  <2> HIDE DEF h
  <2>3. \A n \in Nat : n + 1 <= m => /\ h[n + 1] = PutByte(h[n], b[n + 1])
                                     /\ r[n + 1] = PutByte(r[n], b[n + 1])
    BY <1>4, <2>1 DEF Puts
  <2>4. h[0] = r[0]
    BY <1>4, <2>2 DEF Puts
  <2>5. m \in Nat
    BY <1>1
  <2> HIDE DEF m
  <2>6. Alike(h, r, b, m)
    BY <2>3, <2>4 DEF Alike
  <2>7. QED  BY <2>5, <2>6, PutsSame
<1>8. p[l + m] = r[m]
  <2>1. m \in 0..m
    BY <1>1
  <2>2. h[m] = p[l + m]
    BY <2>1
  <2>3. QED  BY <1>7, <2>2
<1>9. PutBytes(w, c) = p[Len(c)] /\ PutBytes(w, a) = v /\ PutBytes(v, b) = r[m]
  BY PutChosen DEF p, q, r, v
<1>10. PutBytes(w, <<>>) = w
  <2>1. <<>> \in Seq(Byte) /\ Len(<<>>) = 0
    OBVIOUS
  <2>2. Putting(w, <<>>)[0] = w
    BY <2>1, PuttingIs DEF Puts
  <2>3. PutBytes(w, <<>>) = Putting(w, <<>>)[Len(<<>>)]
    BY PutChosen
  <2>4. QED  BY <2>1, <2>2, <2>3
<1>11. QED  BY <1>3, <1>5, <1>8, <1>9, <1>10 DEF c
-----------------------------------------------------------------------------
(* A place of a word is of one byte, and one bit of it.                    *)
LEMMA PlacesApart ==
  ASSUME NEW d \in Nat, NEW i \in 0..(d - 1), NEW j \in 0..(d - 1), NEW n \in Nat, NEW m \in Nat,
         i + n * d = j + m * d
  PROVE  i = j /\ n = m
<1>1. ASSUME NEW a \in Nat, NEW b \in Nat, a < b PROVE a * d + d <= b * d
  <2>1. a + 1 <= b /\ a + 1 \in Nat
    BY <1>1
  <2>2. (a + 1) * d <= b * d /\ (a + 1) * d = a * d + d
    BY <2>1, TimesKeepsOrder
  <2>3. QED  BY <2>2
<1> DEFINE x == n * d
           y == m * d
<1>2. x \in Nat /\ y \in Nat /\ i + x = j + y
  OBVIOUS
<1>3. ~(n < m)
  <2>1. n < m => x + d <= y
    BY <1>1
  <2> HIDE DEF x, y
  <2>2. QED  BY <1>2, <2>1
<1>4. ~(m < n)
  <2>1. m < n => y + d <= x
    BY <1>1
  <2> HIDE DEF x, y
  <2>2. QED  BY <1>2, <2>1
<1>5. n = m
  BY <1>3, <1>4
<1>6. i = j
  <2>1. x = y
    BY <1>5
  <2> HIDE DEF x, y
  <2>2. QED  BY <1>2, <2>1
<1>7. QED  BY <1>5, <1>6

(* A word from memory: its bytes are its digits, and there is no more.     *)
LEMMA WordFromBytes ==
  ASSUME Crc64Assumption, NEW bytes \in Seq(Byte), Len(bytes) = WordBytes
  PROVE  /\ LittleEndian(bytes) \in Words
         /\ \A n \in Nat : n + 1 <= WordBytes =>
              Right(LittleEndian(bytes), n * ByteBits) \cap (0..(ByteBits - 1)) = bytes[n + 1]
         /\ Right(LittleEndian(bytes), WordBytes * ByteBits) = {}
<1> DEFINE x == LittleEndian(bytes)
           N == WordBytes
           d == ByteBits
<1>1. N \in Nat \ {0} /\ d \in Nat \ {0} /\ WordBits = d * N /\ WordBits \in Nat
  BY Sizes DEF WordBits
<1>2. \A k \in 1..N : bytes[k] \in Byte
  OBVIOUS
<1>3. \A k \in 1..N : \A b \in bytes[k] : b \in 0..(d - 1)
  BY <1>2 DEF Byte
<1>4. ASSUME NEW i
      PROVE  i \in x <=> \E k \in 1..N : \E b \in bytes[k] : i = b + (k - 1) * d
  <2>1. DOMAIN bytes = 1..N
    OBVIOUS
  <2>2. QED  BY <2>1 DEF LittleEndian
<1> HIDE DEF x, N, d
<1>5. ASSUME NEW i \in x PROVE i \in 0..(WordBits - 1)
  <2>1. PICK k \in 1..N : \E b \in bytes[k] : i = b + (k - 1) * d
    BY <1>4
  <2>2. PICK b \in bytes[k] : i = b + (k - 1) * d
    BY <2>1
  <2>3. b \in 0..(d - 1)
    BY <1>3
  <2>4. k - 1 \in Nat /\ N - 1 \in Nat /\ k - 1 <= N - 1 /\ (N - 1) + 1 = N
    BY <1>1
  <2>5. (k - 1) * d \in Nat /\ (k - 1) * d <= (N - 1) * d /\ ((N - 1) + 1) * d = (N - 1) * d + d
    BY <1>1, <2>4, TimesKeepsOrder
  <2>6. N * d = d * N
    BY <1>1
  <2> DEFINE e == (k - 1) * d
             g == (N - 1) * d
             h == d * N
  <2>7. g \in Nat /\ e \in Nat /\ e <= g /\ h = g + d /\ i = b + e /\ WordBits = h
    <3>1. g \in Nat
      BY <1>1, <2>4, TimesKeepsOrder
    <3>2. QED  BY <1>1, <2>2, <2>4, <2>5, <2>6, <3>1
  <2> HIDE DEF e, g, h
  <2>8. QED  BY <1>1, <2>3, <2>7
<1>6. x \in Words
  BY <1>5 DEF Words
<1>7. ASSUME NEW n \in Nat, n + 1 <= N PROVE Right(x, n * d) \cap (0..(d - 1)) = bytes[n + 1]
  <2>1. n + 1 \in 1..N /\ (n + 1) - 1 = n /\ n * d \in Nat
    BY <1>1, <1>7
  <2>2. \A i : i \in Right(x, n * d) <=> i \in Nat /\ i + n * d \in x
    BY <1>6, <2>1, Shifted
  <2>3. ASSUME NEW i \in 0..(d - 1), i + n * d \in x PROVE i \in bytes[n + 1]
    <3>1. PICK k \in 1..N : \E b \in bytes[k] : i + n * d = b + (k - 1) * d
      BY <1>4, <2>3
    <3>2. PICK b \in bytes[k] : i + n * d = b + (k - 1) * d
      BY <3>1
    <3>3. k - 1 \in Nat /\ b \in 0..(d - 1) /\ (k - 1) + 1 = k
      BY <1>1, <1>3
    <3>4. i = b /\ n = k - 1
      BY <1>1, <3>2, <3>3, PlacesApart
    <3>5. QED  BY <3>3, <3>4
  <2>4. ASSUME NEW i \in bytes[n + 1] PROVE i \in 0..(d - 1) /\ i + n * d \in x
    BY <1>3, <1>4, <2>1
  <2>5. \A i : i \in Right(x, n * d) \cap (0..(d - 1)) <=> i \in bytes[n + 1]
    BY <2>2, <2>3, <2>4
  <2>6. QED  BY <2>5
<1>8. Right(x, N * d) = {}
  <2>1. N * d \in Nat /\ N * d = WordBits
    BY <1>1
  <2>2. \A i : i \in Right(x, N * d) => i \in Nat /\ i + WordBits \in x
    BY <1>6, <2>1, Shifted
  <2>3. \A i \in Nat : ~(i + WordBits \in 0..(WordBits - 1))
    BY <1>1
  <2>4. QED  BY <1>5, <2>2, <2>3
<1>9. QED  BY <1>6, <1>7, <1>8 DEF x, N, d

-----------------------------------------------------------------------------
(* A word at a time comes to its bytes one by one: the tables' sum is the  *)
(* steps of the whole word.                                                *)
DigitOf(v, i) == Low(Right(v, (WordBytes - 1 - i) * ByteBits))
SumRow(g, v, i) ==
  IF i = 0 THEN crc_table[SliceOf(0)][DigitOf(v, 0)]
  ELSE SymDiff(g[i - 1], crc_table[SliceOf(i)][DigitOf(v, i)])
Summing(v) == CHOOSE g : g = [i \in 0..(WordBytes - 1) |-> SumRow(g, v, i)]
LEMMA PutWordChosen ==
  \A w, bytes : PutWord(w, bytes) = Summing(SymDiff(LittleEndian(bytes), w))[WordBytes - 1]
  BY DEF PutWord, Summing, SumRow, DigitOf

LEMMA SumsAreSteps ==
  ASSUME Crc64Assumption, NEW v \in Words
  PROVE  Summing(v)[WordBytes - 1] = ByteSteps[WordBytes][v]
<1> DEFINE N == WordBytes
           d == ByteBits
           t == ByteSteps
           f == [i \in 0..(N - 1) |-> t[i + 1][Right(v, (N - 1 - i) * d)]]
<1>1. N \in Nat \ {0} /\ d \in Nat \ {0} /\ Byte \subseteq Words
  BY Sizes
<1>2. ByteStep \in [Words -> Words]
  BY ByteStepIs
<1>3. /\ \A n \in 0..N, w \in Words : t[n][w] \in Words
      /\ \A w \in Words : t[0][w] = w
      /\ \A n \in 0..N : Linear(t[n])
  BY <1>1, <1>2, ByteStepIs, TimesSteps DEF ByteSteps
<1>4. \A n \in Nat, w \in Words : n + 1 <= N => t[n + 1][w] = t[n][ByteStep[w]]
  BY <1>1, <1>2, TimesFirst DEF ByteSteps
<1>5. \A i \in 0..(N - 1), b \in Byte : crc_table[SliceOf(i)][b] = t[i + 1][b]
  BY TableIs DEF SliceOf
<1>6. \A n \in Nat : n * d \in Nat /\ (n + 1) * d = n * d + d
  BY <1>1, TimesKeepsOrder
<1> HIDE DEF t, N, d
<1>7. \A i \in 0..(N - 1) : N - 1 - i \in Nat /\ (N - 1 - i) * d \in Nat
  BY <1>1, <1>6
<1>8. \A i \in 0..(N - 1) : Right(v, (N - 1 - i) * d) \in Words /\ DigitOf(v, i) \in Byte
  <2> TAKE i \in 0..(N - 1)
  <2>1. Right(v, (N - 1 - i) * d) \in Words
    BY <1>7, Shifted
  <2>2. Low(Right(v, (N - 1 - i) * d)) \in Byte
    BY <2>1, LowIs
  <2>3. QED  BY <2>1, <2>2 DEF DigitOf, N, d
<1>9. ASSUME NEW i \in 0..(N - 1) PROVE f[i] = SumRow(f, v, i)
  <2> DEFINE x == Right(v, (N - 1 - i) * d)
             a == DigitOf(v, i)
  <2>1. x \in Words /\ a \in Byte /\ a = Low(x) /\ a \in Words
    BY <1>1, <1>8 DEF DigitOf, N, d
  <2>2. f[i] = t[i + 1][x] /\ i \in Nat /\ i + 1 <= N /\ i \in 0..N /\ i + 1 \in 0..N
    BY <1>1
  <2>3. t[i + 1][a] = crc_table[SliceOf(i)][a]
    BY <1>5, <2>1
  <2>4. CASE i = 0
    <3>1. \A j \in x : j \in Nat /\ j < d
      <4>1. (N - 1 - i) * d \in Nat /\ (N - 1 - i) * d + d = WordBits
        <5>1. N - 1 \in Nat /\ ((N - 1) + 1) * d = (N - 1) * d + d /\ (N - 1) + 1 = N /\ N - 1 - i = N - 1
          BY <1>1, <1>6, <2>4
        <5>2. N * d = WordBits
          BY <1>1 DEF WordBits, N, d
        <5>3. QED  BY <1>6, <5>1, <5>2
      <4> DEFINE e == (N - 1 - i) * d
      <4>2. e \in Nat /\ e + d = WordBits
        BY <4>1
      <4> HIDE DEF e
      <4>3. \A j \in Right(v, e) : j \in Nat /\ j + e \in v
        BY <4>2, Shifted
      <4>4. \A j \in v : j \in 0..(WordBits - 1)
        BY DEF Words
      <4>5. \A j \in Right(v, e) : j \in Nat /\ j + e < e + d
        BY <1>1, <4>2, <4>3, <4>4
      <4>6. \A j \in Right(v, e) : j \in Nat /\ j < d
        BY <1>1, <4>2, <4>5
      <4>7. QED  BY <4>6 DEF e
    <3>2. a = x
      <4> HIDE DEF x, a
      <4>1. \A j \in Nat : j \in Low(x) <=> j \in x /\ j < d
        BY <2>1, LowIs DEF d
      <4>2. Low(x) \subseteq x
        BY DEF Low
      <4>3. QED  BY <2>1, <3>1, <4>1, <4>2
    <3>3. QED  BY <2>2, <2>3, <2>4, <3>2 DEF SumRow
  <2>5. CASE i # 0
    <3> DEFINE y == Right(v, (N - 1 - (i - 1)) * d)
    <3>1. i - 1 \in 0..(N - 1) /\ (i - 1) + 1 = i /\ f[i - 1] = t[i][y]
      BY <1>1, <2>5
    <3>2. Right(x, d) = y /\ y \in Words
      <4> DEFINE e == (N - 1 - i) * d
      <4>1. e \in Nat /\ (N - 1 - (i - 1)) * d = e + d
        <5>1. N - 1 - i \in Nat /\ N - 1 - (i - 1) = (N - 1 - i) + 1
          BY <1>1, <2>5
        <5>2. QED  BY <1>6, <5>1
      <4> HIDE DEF e
      <4>2. Right(Right(v, e), d) = Right(v, e + d) /\ Right(v, e + d) \in Words
        BY <1>1, <4>1, Shifted
      <4>3. QED  BY <4>1, <4>2 DEF e
    <3> HIDE DEF x, y, a
    <3>3. ByteStep[x] = SymDiff(ByteStep[a], y)
      BY <2>1, <3>2, ByteStepSplits DEF d
    <3>4. t[i + 1][x] = t[i][ByteStep[x]] /\ t[i + 1][a] = t[i][ByteStep[a]]
      BY <1>4, <2>1, <2>2
    <3>5. t[i][SymDiff(ByteStep[a], y)] = SymDiff(t[i][ByteStep[a]], t[i][y])
      <4>1. ByteStep[a] \in Words
        BY <1>2, <2>1
      <4>2. QED  BY <1>3, <2>2, <3>2, <4>1 DEF Linear
    <3>6. t[i + 1][x] = SymDiff(t[i][y], t[i + 1][a])
      BY <3>3, <3>4, <3>5, Xor
    <3>7. f[i] = SymDiff(f[i - 1], crc_table[SliceOf(i)][a])
      BY <2>2, <2>3, <3>1, <3>6
    <3>8. QED  BY <2>5, <3>7 DEF SumRow, a
  <2>6. QED  BY <2>4, <2>5
<1>10. f = [i \in 0..(N - 1) |-> SumRow(f, v, i)]
  BY <1>9
<1>11. N - 1 \in 0..(N - 1) /\ (N - 1) + 1 = N /\ f[N - 1] = t[N][v]
  <2>1. N - 1 \in 0..(N - 1) /\ (N - 1) + 1 = N /\ N - 1 - (N - 1) = 0
    BY <1>1
  <2>2. 0 * d = 0 /\ Right(v, 0) = v
    BY <1>1, Shifted
  <2>3. QED  BY <2>1, <2>2
<1> HIDE DEF f
<1> DEFINE s == Summing(v)
<1>12. s = [i \in 0..(N - 1) |-> SumRow(s, v, i)]
  BY <1>10 DEF Summing, N
<1> HIDE DEF s
<1>13. \A i \in 0..(N - 1) : s[i] = SumRow(s, v, i) /\ f[i] = SumRow(f, v, i)
  BY <1>9, <1>12
<1> DEFINE Good == {n \in Nat : n <= N - 1 => s[n] = f[n]}
<1>14. 0 \in Good
  <2>1. 0 \in 0..(N - 1)
    BY <1>1
  <2>2. QED  BY <1>13, <2>1 DEF SumRow
<1>15. ASSUME NEW n \in Nat, n \in Good PROVE n + 1 \in Good
  <2> SUFFICES ASSUME n + 1 <= N - 1 PROVE s[n + 1] = f[n + 1]
    OBVIOUS
  <2>1. n + 1 \in 0..(N - 1) /\ n + 1 # 0 /\ (n + 1) - 1 = n /\ n <= N - 1
    BY <1>1
  <2>2. QED  BY <1>13, <1>15, <2>1 DEF SumRow
<1>16. s[N - 1] = f[N - 1]
  <2>1. Nat \subseteq Good
    <3> HIDE DEF Good
    <3>1. QED  BY <1>14, <1>15, NumberInduction
  <2>2. N - 1 \in Nat
    BY <1>1
  <2>3. QED  BY <2>1, <2>2
<1>17. QED  BY <1>11, <1>16 DEF s, N, t

LEMMA PutWordIs ==
  ASSUME Crc64Assumption, NEW w \in Words, NEW bytes \in Seq(Byte), Len(bytes) = WordBytes
  PROVE  PutWord(w, bytes) = PutBytes(w, bytes)
<1> DEFINE x == LittleEndian(bytes)
           p == Putting(w, bytes)
           N == WordBytes
<1>1. /\ N \in Nat /\ x \in Words /\ Right(x, N * ByteBits) = {}
      /\ \A n \in Nat : n + 1 <= N => Right(x, n * ByteBits) \cap (0..(ByteBits - 1)) = bytes[n + 1]
  BY WordFromBytes, Sizes
<1>2. Puts(p, w, bytes)
  BY PuttingIs
<1> HIDE DEF x, p
<1>3. \A n \in 0..N : p[n] \in Words
  BY <1>2 DEF Puts
<1>4. ASSUME NEW n \in Nat, n + 1 <= N
      PROVE  p[n + 1] = ByteStep[SymDiff(p[n], Right(x, n * ByteBits) \cap (0..(ByteBits - 1)))]
  <2>1. n \in 0..N /\ n + 1 \in 1..N
    BY <1>1, <1>4
  <2>2. p[n] \in Words /\ bytes[n + 1] \in Byte
    BY <1>3, <2>1
  <2>3. p[n + 1] = PutByte(p[n], bytes[n + 1])
    BY <1>2, <1>4 DEF Puts
  <2>4. QED  BY <1>1, <1>4, <2>2, <2>3, PutByteIs
<1>5. SymDiff(p[N], Right(x, N * ByteBits)) = Times(ByteStep, N)[N][SymDiff(p[0], x)]
  <2>1. ByteStep \in [Words -> Words] /\ Linear(ByteStep) /\ Shifts(ByteStep, ByteBits)
    BY ByteStepIs
  <2>2. ByteBits \in Nat /\ N \in 0..N
    BY <1>1, Sizes
  <2> HIDE DEF N
  <2>3. N \in Nat /\ x \in Words
    BY <1>1
  <2>4. Takes(p, ByteStep, N, ByteBits, x)
    BY <1>3, <1>4 DEF Takes
  <2>5. QED  BY <2>1, <2>2, <2>3, <2>4, DigitsTaken
<1>6. p[N] = ByteSteps[N][SymDiff(x, w)]
  <2>1. p[0] = w
    BY <1>2 DEF Puts
  <2>2. SymDiff(p[N], {}) = p[N] /\ SymDiff(w, x) = SymDiff(x, w)
    BY Xor
  <2>3. QED  BY <1>1, <1>5, <2>1, <2>2 DEF ByteSteps
<1>7. PutWord(w, bytes) = ByteSteps[N][SymDiff(x, w)]
  <2>1. SymDiff(x, w) \in Words
    BY <1>1, Xor DEF Words
  <2>2. QED  BY <2>1, PutWordChosen, SumsAreSteps DEF x
<1>8. QED  BY <1>6, <1>7, PutChosen DEF p

-----------------------------------------------------------------------------
(* Two parts of a buffer, put one after the other.                         *)
Parts(s, a, b) == a \in Seq(Byte) /\ b \in Seq(Byte) /\ s = a \o b

LEMMA PutParts ==
  ASSUME Crc64Assumption, NEW w \in Words, NEW s, NEW a, NEW b, Parts(s, a, b)
  PROVE  PutBytes(w, a) \in Words /\ PutBytes(w, s) = PutBytes(PutBytes(w, a), b)
<1>1. a \in Seq(Byte) /\ b \in Seq(Byte) /\ s = a \o b
  BY DEF Parts
<1>2. PutBytes(w, a) \in Words /\ PutBytes(w, a \o b) = PutBytes(PutBytes(w, a), b)
  BY <1>1, PutJoined
<1>3. QED  BY <1>1, <1>2

LEMMA PartsOf ==
  ASSUME NEW s \in Seq(Byte), NEW m \in 0..Len(s), NEW n \in m..Len(s)
  PROVE  /\ Parts(SubSeq(s, 1, n), SubSeq(s, 1, m), SubSeq(s, m + 1, n))
         /\ Len(SubSeq(s, m + 1, n)) = n - m
<1>1. \A i \in 1..n : s[i] \in Byte
  OBVIOUS
<1>2. \A i \in 1..m : s[i] \in Byte
  OBVIOUS
<1>3. SubSeq(s, 1, m) \in Seq(Byte)
  BY <1>2, SubSeqProperties
<1>4. SubSeq(s, m + 1, n) \in Seq(Byte) /\ Len(SubSeq(s, m + 1, n)) = n - m
  <2>1. \A i \in (m + 1)..n : s[i] \in Byte
    BY <1>1
  <2>2. m + 1 \in Int /\ n \in Int
    OBVIOUS
  <2>3. /\ SubSeq(s, m + 1, n) \in Seq(Byte)
        /\ Len(SubSeq(s, m + 1, n)) = IF m + 1 <= n THEN n - (m + 1) + 1 ELSE 0
    BY <2>1, <2>2, SubSeqProperties
  <2>4. QED  BY <2>3
<1>5. SubSeq(s, 1, m) \o SubSeq(s, m + 1, n) = SubSeq(s, 1, n)
  <2>1. 1 \in 1..(Len(s) + 1) /\ m \in (1 - 1)..Len(s) /\ n \in m..Len(s)
    OBVIOUS
  <2>2. QED  BY <2>1, ConcatAdjacentSubSeq
<1>6. QED  BY <1>3, <1>4, <1>5 DEF Parts

LEMMA PartsOfAll ==
  ASSUME NEW s \in Seq(Byte), NEW m \in 0..Len(s)
  PROVE  Parts(s, SubSeq(s, 1, m), SubSeq(s, m + 1, Len(s)))
<1>1. Len(s) \in m..Len(s)
  OBVIOUS
<1>2. Parts(SubSeq(s, 1, Len(s)), SubSeq(s, 1, m), SubSeq(s, m + 1, Len(s)))
  BY <1>1, PartsOf
<1>3. QED  BY <1>2, SubSeqFull

(* The whole words of a buffer, and what is left of it, come to its bytes  *)
(* one by one.                                                             *)
AlignedRow(g, w, buf, k) ==
  IF k = 0 THEN w
  ELSE PutWord(g[k - 1], SubSeq(buf, (k - 1) * WordBytes + 1, k * WordBytes))
Aligned(w, buf) ==
  CHOOSE g : g = [k \in 0..(Len(buf) \div WordBytes) |-> AlignedRow(g, w, buf, k)]
LEMMA AlignedChosen ==
  \A w, buf : PutAligned(w, buf) =
    PutBytes(Aligned(w, buf)[Len(buf) \div WordBytes],
             SubSeq(buf, (Len(buf) \div WordBytes) * WordBytes + 1, Len(buf)))
  BY DEF PutAligned, Aligned, AlignedRow

LEMMA PutAlignedIs ==
  ASSUME Crc64Assumption, NEW w \in Words, NEW buf \in Seq(Byte)
  PROVE  PutAligned(w, buf) = PutBytes(w, buf)
<1> DEFINE l == Len(buf)
           W == WordBytes
           N == l \div W
           f == [k \in 0..N |-> PutBytes(w, SubSeq(buf, 1, k * W))]
           s == Aligned(w, buf)
<1>1. l \in Nat /\ W \in Nat \ {0} /\ N \in Nat /\ N * W <= l
  <2>1. l \in Nat /\ W \in Nat \ {0}
    BY Sizes
  <2> HIDE DEF l, W
  <2>2. l \div W \in Nat /\ (l \div W) * W <= l
    BY <2>1, QuotientBounds
  <2>3. QED  BY <2>1, <2>2
<1> HIDE DEF N, W
<1>2. \A k \in 0..N : k * W \in 0..l
  BY <1>1, TimesKeepsOrder
<1>3. ASSUME NEW k \in 0..N PROVE f[k] = AlignedRow(f, w, buf, k)
  <2>1. CASE k = 0
    <3>1. 0 * W = 0
      BY <1>1
    <3>2. SubSeq(buf, 1, 0) = <<>>
      BY SubSeqEmpty
    <3>3. f[0] = PutBytes(w, SubSeq(buf, 1, 0 * W))
      BY <1>1
    <3>4. f[0] = w
      BY <3>1, <3>2, <3>3, PutJoined
    <3>5. QED  BY <2>1, <3>4 DEF AlignedRow
  <2>2. CASE k # 0
    <3> DEFINE i == (k - 1) * W
               j == k * W
               a == SubSeq(buf, 1, i)
               b == SubSeq(buf, i + 1, j)
    <3>1. k - 1 \in 0..N /\ (k - 1) + 1 = k /\ k - 1 \in Nat
      BY <1>1, <2>2
    <3>2. i \in 0..l /\ j \in 0..l /\ j = i + W
      <4>1. ((k - 1) + 1) * W = (k - 1) * W + W
        BY <1>1, <3>1, TimesKeepsOrder
      <4>2. QED  BY <1>2, <3>1, <4>1
    <3>3. f[k] = PutBytes(w, SubSeq(buf, 1, j)) /\ f[k - 1] = PutBytes(w, a)
      BY <3>1
    <3> HIDE DEF i, j
    <3>4. j \in i..l /\ j - i = W
      BY <1>1, <3>2
    <3>5. Parts(SubSeq(buf, 1, j), a, b) /\ Len(b) = W
      BY <3>2, <3>4, PartsOf
    <3> HIDE DEF a, b, f
    <3>6. f[k] = PutBytes(f[k - 1], b) /\ f[k - 1] \in Words
      BY <3>3, <3>5, PutParts
    <3>7. PutWord(f[k - 1], b) = PutBytes(f[k - 1], b)
      <4>1. b \in Seq(Byte)
        BY <3>5 DEF Parts
      <4>2. QED  BY <3>5, <3>6, <4>1, PutWordIs DEF W
    <3>8. QED  BY <2>2, <3>6, <3>7 DEF AlignedRow, b, i, j, W
  <2>3. QED  BY <2>1, <2>2
<1>4. f = [k \in 0..N |-> AlignedRow(f, w, buf, k)]
  BY <1>3
<1>5. f[N] = PutBytes(w, SubSeq(buf, 1, N * W))
  BY <1>1
<1> HIDE DEF f, s
<1>6. s = [k \in 0..N |-> AlignedRow(s, w, buf, k)]
  <2>1. s = CHOOSE g : g = [k \in 0..N |-> AlignedRow(g, w, buf, k)]
    BY DEF Aligned, N, W, s
  <2>2. QED  BY <1>4, <2>1
<1>7. \A k \in 0..N : s[k] = AlignedRow(s, w, buf, k)
  BY <1>6
<1> DEFINE Good == {n \in Nat : n <= N => s[n] = f[n]}
<1>8. 0 \in Good
  BY <1>1, <1>3, <1>7 DEF AlignedRow
<1>9. ASSUME NEW n \in Nat, n \in Good PROVE n + 1 \in Good
  <2> SUFFICES ASSUME n + 1 <= N PROVE s[n + 1] = f[n + 1]
    OBVIOUS
  <2>1. n + 1 \in 0..N /\ n + 1 # 0 /\ (n + 1) - 1 = n /\ n <= N
    BY <1>1
  <2>2. s[n] = f[n]
    BY <1>9, <2>1
  <2>3. s[n + 1] = AlignedRow(s, w, buf, n + 1) /\ f[n + 1] = AlignedRow(f, w, buf, n + 1)
    BY <1>3, <1>7, <2>1
  <2>4. AlignedRow(s, w, buf, n + 1) = AlignedRow(f, w, buf, n + 1)
    BY <2>1, <2>2 DEF AlignedRow
  <2>5. QED  BY <2>3, <2>4
<1>10. s[N] = f[N]
  <2>1. Nat \subseteq Good
    <3> HIDE DEF Good
    <3>1. QED  BY <1>8, <1>9, NumberInduction
  <2>2. QED  BY <1>1, <2>1
<1>11. PutAligned(w, buf) = PutBytes(s[N], SubSeq(buf, N * W + 1, l))
  BY AlignedChosen DEF s, N, W
<1> DEFINE m == N * W
<1>12. m \in 0..l
  BY <1>1, <1>2
<1> HIDE DEF m
<1>13. Parts(buf, SubSeq(buf, 1, m), SubSeq(buf, m + 1, l))
  BY <1>12, PartsOfAll
<1>14. PutBytes(w, buf) = PutBytes(PutBytes(w, SubSeq(buf, 1, m)), SubSeq(buf, m + 1, l))
  BY <1>13, PutParts
<1>15. QED  BY <1>5, <1>10, <1>11, <1>14 DEF m

(* The function of the source: what was before is undone and done again.   *)
LEMMA NotIs ==
  ASSUME NEW w \in Words
  PROVE  Not(w) \in Words /\ Not(Not(w)) = w
  BY DEF Not, Words

LEMMA Crc64Is ==
  ASSUME Crc64Assumption, NEW w \in Words, NEW address \in Nat, NEW buf \in Seq(Byte)
  PROVE  crc64(w, address, buf) = Not(PutBytes(Not(w), buf))
<1> DEFINE n == IF address < Len(buf) THEN address ELSE Len(buf)
           a == SubSeq(buf, 1, n)
           b == SubSeq(buf, n + 1, Len(buf))
<1>1. n \in 0..Len(buf)
  OBVIOUS
<1>2. crc64(w, address, buf) = Not(PutAligned(PutBytes(Not(w), a), b))
  BY DEF crc64
<1> HIDE DEF n
<1>3. Parts(buf, a, b)
  BY <1>1, PartsOfAll
<1>4. Not(w) \in Words
  BY NotIs
<1> HIDE DEF a, b
<1>5. /\ PutBytes(Not(w), a) \in Words
      /\ PutBytes(Not(w), buf) = PutBytes(PutBytes(Not(w), a), b)
  BY <1>3, <1>4, PutParts
<1>6. PutAligned(PutBytes(Not(w), a), b) = PutBytes(PutBytes(Not(w), a), b)
  BY <1>3, <1>5, PutAlignedIs DEF Parts
<1>7. QED  BY <1>2, <1>5, <1>6

-----------------------------------------------------------------------------
(* The definition takes the stream bit by bit; after whole bytes it is     *)
(* where the bytes, put one by one, are.                                   *)
BitOf(data, n) == IF (n - 1) % ByteBits \in data[(n - 1) \div ByteBits + 1] THEN {0} ELSE {}
Dividing(data) ==
  CHOOSE g : g = [n \in 0..(ByteBits * Len(data)) |->
                   IF n = 0 THEN Not({}) ELSE OneBit(SymDiff(g[n - 1], BitOf(data, n)))]
LEMMA ReferenceChosen == \A data : Reference(data) = Not(Dividing(data)[ByteBits * Len(data)])
  BY DEF Reference, Dividing, BitOf

Divides(r, data) ==
  /\ r[0] = Not({})
  /\ \A n \in 0..(ByteBits * Len(data)) : r[n] \in Words
  /\ \A n \in Nat : n + 1 <= ByteBits * Len(data) =>
       r[n + 1] = OneBit(SymDiff(r[n], BitOf(data, n + 1)))

LEMMA DividingIs ==
  ASSUME Crc64Assumption, NEW data \in Seq(Byte)
  PROVE  Divides(Dividing(data), data)
<1> DEFINE N == ByteBits * Len(data)
           Next(v, n) == OneBit(SymDiff(v, BitOf(data, n)))
           F == [p \in Words \X (1..N) |-> Next(p[1], p[2])]
           Row(g) == [n \in 0..N |-> IF n = 0 THEN Not({}) ELSE Next(g[n - 1], n)]
           first == Not({})
           r == Dividing(data)
<1>1. N \in Nat
  BY Sizes
<1>2. ASSUME NEW v \in Words, NEW n PROVE Next(v, n) \in Words
  <2>1. BitOf(data, n) \in Words
    <3>1. 0 \in 0..(WordBits - 1)
      BY Sizes
    <3>2. {0} \in Words /\ {} \in Words
      BY <3>1 DEF Words
    <3>3. QED  BY <3>2 DEF BitOf
  <2>2. SymDiff(v, BitOf(data, n)) \in Words
    BY <2>1, XorWord
  <2>3. QED  BY <2>2, OneBitIs
<1>3. first \in Words
  BY DEF Not, Words
<1>4. r = CHOOSE g : g = Row(g)
  BY DEF Dividing
<1> HIDE DEF Next, N, first, r
<1>5. F \in [Words \X (1..N) -> Words] /\ \A v \in Words, n \in 1..N : F[<<v, n>>] = Next(v, n)
  BY <1>2
<1> HIDE DEF F
<1>6. PICK f \in [0..N -> Words] : Stepwise(f, N, first, F)
  BY <1>1, <1>3, <1>5, StepsExist
<1>7. ASSUME NEW n \in 0..N PROVE f[n] = IF n = 0 THEN first ELSE Next(f[n - 1], n)
  <2>1. CASE n = 0
    BY <1>6, <2>1 DEF Stepwise
  <2>2. CASE n # 0
    <3>1. n \in 1..N /\ n - 1 \in 0..N
      BY <1>1, <2>2
    <3>2. f[n] = F[<<f[n - 1], n>>] /\ f[n - 1] \in Words
      BY <1>6, <2>2, <3>1 DEF Stepwise
    <3>3. QED  BY <1>5, <2>2, <3>1, <3>2
  <2>3. QED  BY <2>1, <2>2
<1>8. f = Row(f)
  <2>1. f = [n \in 0..N |-> f[n]]
    BY <1>6
  <2>2. QED  BY <1>7, <2>1 DEF first
<1>9. r = Row(r)
  BY <1>4, <1>8
<1>10. \A n \in 0..N : r[n] = IF n = 0 THEN first ELSE Next(r[n - 1], n)
  BY <1>9 DEF first
<1>11. \A n \in Nat : n + 1 <= N => r[n + 1] = Next(r[n], n + 1)
  <2>1. \A n \in Nat : n + 1 <= N => n + 1 \in 0..N /\ n + 1 # 0 /\ (n + 1) - 1 = n
    BY <1>1
  <2>2. QED  BY <1>10, <2>1
<1> DEFINE Good == {n \in Nat : n <= N => r[n] \in Words}
<1>12. r[0] = first
  BY <1>1, <1>10
<1>13. 0 \in Good
  BY <1>3, <1>12
<1>14. ASSUME NEW n \in Nat, n \in Good PROVE n + 1 \in Good
  <2> SUFFICES ASSUME n + 1 <= N PROVE r[n + 1] \in Words
    OBVIOUS
  <2>1. n <= N
    BY <1>1
  <2>2. QED  BY <1>2, <1>11, <1>14, <2>1
<1>15. Nat \subseteq Good
  <2> HIDE DEF Good
  <2>1. QED  BY <1>13, <1>14, NumberInduction
<1>16. QED  BY <1>11, <1>12, <1>15 DEF Divides, r, N, first, Next

(* The bits of one byte.                                                   *)
LEMMA ByteDivided ==
  ASSUME Crc64Assumption, NEW data \in Seq(Byte), NEW r, Divides(r, data),
         NEW k \in Nat, k + 1 <= Len(data)
  PROVE  /\ r[k * ByteBits] \in Words
         /\ r[(k + 1) * ByteBits] = PutByte(r[k * ByteBits], data[k + 1])
<1> DEFINE d == ByteBits
           L == Len(data)
           N == d * L
           x == data[k + 1]
           e == k * d
           f == [j \in 0..d |-> r[e + j]]
<1>1. d \in Nat \ {0} /\ L \in Nat /\ x \in Byte /\ Byte \subseteq Words
  <2>1. k + 1 \in 1..L
    OBVIOUS
  <2>2. QED  BY <2>1, Sizes
<1>2. e \in Nat /\ (k + 1) * d = e + d /\ e + d <= N
  <2>1. (k + 1) * d <= L * d /\ L * d = d * L
    BY <1>1, TimesKeepsOrder
  <2>2. e \in Nat /\ (k + 1) * d = e + d
    BY <1>1, TimesKeepsOrder
  <2>3. QED  BY <2>1, <2>2
<1>3. ASSUME NEW j \in 0..(d - 1) PROVE BitOf(data, e + j + 1) = Right(x, j * 1) \cap (0..(1 - 1))
  <2>1. e + j + 1 - 1 = e + j /\ e + j \in Nat /\ j \in Nat /\ j < d
    BY <1>1, <1>2
  <2>2. (e + j) \div d = k
    <3>1. k * d <= e + j /\ e + j < (k + 1) * d
      BY <1>1, <1>2, <2>1
    <3> HIDE DEF e, d
    <3>2. QED  BY <1>1, <2>1, <3>1, QuotientIs
  <2>3. (e + j) % d = j
    <3>1. (e + j) % d = (e + j) - ((e + j) \div d) * d
      BY <1>1, <2>1, QuotientBounds
    <3>2. (e + j) % d = (e + j) - e
      BY <2>2, <3>1
    <3> HIDE DEF e, d
    <3>3. QED  BY <1>2, <2>1, <3>2
  <2>4. BitOf(data, e + j + 1) = IF j \in x THEN {0} ELSE {}
    <3> HIDE DEF e
    <3>1. QED  BY <2>1, <2>2, <2>3 DEF BitOf
  <2>5. j * 1 = j /\ \A i : i \in Right(x, j) <=> i \in Nat /\ i + j \in x
    <3>1. j * 1 = j /\ x \in Words
      BY <1>1, <2>1
    <3> HIDE DEF x
    <3>2. QED  BY <2>1, <3>1, Shifted
  <2>6. 0..(1 - 1) = {0}
    OBVIOUS
  <2>7. 0 \in Right(x, j) <=> j \in x
    BY <2>1, <2>5
  <2> HIDE DEF x, e, d
  <2>8. QED  BY <2>4, <2>5, <2>6, <2>7
<1>4. Takes(f, BitStep, d, 1, x)
  <2>1. ASSUME NEW j \in 0..d PROVE f[j] \in Words
    <3>1. e + j \in 0..N
      BY <1>1, <1>2
    <3>2. r[e + j] \in Words
      BY <3>1 DEF Divides
    <3>3. QED  BY <3>2
  <2>2. ASSUME NEW j \in Nat, j + 1 <= d
        PROVE  f[j + 1] = BitStep[SymDiff(f[j], Right(x, j * 1) \cap (0..(1 - 1)))]
    <3>1. j \in 0..d /\ j + 1 \in 0..d /\ j \in 0..(d - 1)
      BY <1>1, <2>2
    <3>2. e + j \in Nat /\ (e + j) + 1 <= N /\ e + (j + 1) = (e + j) + 1
      BY <1>1, <1>2, <2>2
    <3>3. r[(e + j) + 1] = OneBit(SymDiff(r[e + j], BitOf(data, (e + j) + 1)))
      BY <3>2 DEF Divides
    <3>4. f[j + 1] = r[(e + j) + 1] /\ f[j] = r[e + j] /\ f[j] \in Words
      BY <2>1, <3>1, <3>2
    <3> DEFINE b == Right(x, j * 1) \cap (0..(1 - 1))
    <3>5. BitOf(data, (e + j) + 1) = b
      BY <1>3, <3>1
    <3>6. b \in Words
      <4>1. j * 1 = j /\ x \in Words
        BY <1>1
      <4>2. Right(x, j) \in Words
        BY <4>1, Shifted
      <4>3. QED  BY <4>1, <4>2 DEF Words
    <3> HIDE DEF b, f, e, d, x
    <3>7. SymDiff(f[j], b) \in Words
      BY <3>4, <3>6, XorWord
    <3>8. BitStep[SymDiff(f[j], b)] = OneBit(SymDiff(f[j], b))
      BY <3>7 DEF BitStep
    <3>9. QED  BY <3>3, <3>4, <3>5, <3>8 DEF b
  <2> HIDE DEF f
  <2>3. QED  BY <2>1, <2>2 DEF Takes
<1>5. f[0] = r[e] /\ f[d] = r[e + d] /\ r[e] \in Words
  <2>1. 0 \in 0..d /\ d \in 0..d /\ e + 0 = e /\ e \in 0..N
    BY <1>1, <1>2
  <2>2. r[e] \in Words
    BY <2>1 DEF Divides
  <2>3. QED  BY <2>1, <2>2
<1> HIDE DEF f, e, x
<1>6. SymDiff(f[d], Right(x, d * 1)) = Times(BitStep, d)[d][SymDiff(f[0], x)]
  <2>1. BitStep \in [Words -> Words] /\ Linear(BitStep) /\ Shifts(BitStep, 1) /\ d \in Nat /\ 1 \in Nat
    BY BitStepIs
  <2>2. x \in Words
    BY <1>1
  <2> HIDE DEF d
  <2>3. QED  BY <1>4, <2>1, <2>2, DigitsTaken
<1>7. Right(x, d * 1) = {}
  <2>1. Low(x) = x
    BY <1>1 DEF Low, Byte
  <2>2. Right(x, d) = {}
    BY <1>1, <2>1, LowIs
  <2>3. d * 1 = d
    BY <1>1
  <2>4. QED  BY <2>2, <2>3
<1>8. f[d] = ByteStep[SymDiff(r[e], x)]
  BY <1>5, <1>6, <1>7, Xor DEF ByteStep, BitSteps
<1>9. f[d] = PutByte(r[e], x)
  BY <1>1, <1>5, <1>8, PutByteIs
<1>10. QED  BY <1>2, <1>5, <1>9 DEF e, x

LEMMA ReferenceIs ==
  ASSUME Crc64Assumption, NEW data \in Seq(Byte)
  PROVE  Reference(data) = Not(PutBytes(Not({}), data))
<1> DEFINE r == Dividing(data)
           w == Not({})
           p == Putting(w, data)
           L == Len(data)
           d == ByteBits
           h == [k \in 0..L |-> r[k * d]]
<1>1. w \in Words /\ L \in Nat /\ d \in Nat \ {0}
  BY Sizes DEF Not, Words
<1>2. Divides(r, data) /\ Puts(p, w, data)
  BY <1>1, DividingIs, PuttingIs
<1> HIDE DEF r, p
<1>3. r[0] = w /\ p[0] = w
  BY <1>2 DEF Divides, Puts
<1> HIDE DEF w
<1>4. h[0] = p[0]
  <2>1. 0 \in 0..L /\ 0 * d = 0
    BY <1>1
  <2>2. QED  BY <1>3, <2>1
<1>5. ASSUME NEW n \in Nat, n + 1 <= L
      PROVE  h[n + 1] = PutByte(h[n], data[n + 1]) /\ p[n + 1] = PutByte(p[n], data[n + 1])
  <2>1. r[(n + 1) * d] = PutByte(r[n * d], data[n + 1])
    BY <1>2, <1>5, ByteDivided
  <2>2. n \in 0..L /\ n + 1 \in 0..L
    BY <1>1, <1>5
  <2>3. h[n + 1] = r[(n + 1) * d] /\ h[n] = r[n * d]
    BY <2>2
  <2>4. p[n + 1] = PutByte(p[n], data[n + 1])
    BY <1>2, <1>5 DEF Puts
  <2>5. QED  BY <2>1, <2>3, <2>4
<1>6. h[L] = r[d * L]
  <2>1. L \in 0..L /\ L * d = d * L
    BY <1>1
  <2>2. QED  BY <2>1
<1>7. h[L] = p[L]
  <2>1. L \in Nat
    BY <1>1
  <2> HIDE DEF h, L
  <2>2. Alike(h, p, data, L)
    BY <1>4, <1>5 DEF Alike
  <2>3. QED  BY <2>1, <2>2, PutsSame
<1>8. Reference(data) = Not(r[d * L])
  BY ReferenceChosen DEF r
<1>9. PutBytes(w, data) = p[L]
  BY PutChosen DEF p
<1>10. QED  BY <1>6, <1>7, <1>8, <1>9 DEF w

-----------------------------------------------------------------------------
(* The register holds the CRC of what was fed, and its bytes, the most     *)
(* significant first, are the digest's.                                    *)
CrcInv ==
  /\ crc \in Words /\ fed \in Seq(Byte)
  /\ crc = Not(PutBytes(Not({}), fed))

LEMMA DigestIs ==
  ASSUME Crc64Assumption, CrcInv
  PROVE  BigEndian(crc) = CrcDigest(fed)
<1> DEFINE place(i) == (WordBytes - i) * ByteBits
           bits == 0..(ByteBits - 1)
<1>1. crc \in Words /\ crc = Reference(fed)
  BY ReferenceIs DEF CrcInv
<1>2. ASSUME NEW i \in 1..WordBytes
      PROVE  Low(Right(crc, place(i))) = {b \in bits : b + place(i) \in crc}
  <2>1. place(i) \in Nat
    <3>1. WordBytes - i \in Nat /\ ByteBits \in Nat
      BY Sizes
    <3>2. QED  BY <3>1, TimesKeepsOrder
  <2> HIDE DEF place
  <2>2. \A b : b \in Right(crc, place(i)) <=> b \in Nat /\ b + place(i) \in crc
    BY <1>1, <2>1, Shifted
  <2>3. \A b \in bits : b \in Nat
    OBVIOUS
  <2>4. Low(Right(crc, place(i))) = Right(crc, place(i)) \cap bits
    BY DEF Low
  <2> HIDE DEF bits
  <2>5. QED  BY <2>2, <2>3, <2>4
<1>3. BigEndian(crc) = [i \in 1..WordBytes |-> Low(Right(crc, place(i)))]
  BY DEF BigEndian, Shift
<1>4. CrcDigest(fed) = [i \in 1..WordBytes |-> {b \in bits : b + place(i) \in crc}]
  BY <1>1 DEF CrcDigest
<1> HIDE DEF place, bits
<1>5. QED  BY <1>2, <1>3, <1>4

LEMMA CrcInitial ==
  ASSUME Crc64Assumption, CrcInit
  PROVE  CrcInv
<1>1. {} \in Words /\ Not({}) \in Words /\ Not(Not({})) = {}
  BY DEF Words, Not
<1>2. PutBytes(Not({}), <<>>) = Not({})
  <2>1. <<>> \in Seq(Byte)
    OBVIOUS
  <2>2. QED  BY <1>1, <2>1, PutJoined
<1>3. crc = {} /\ fed = <<>>
  BY DEF CrcInit
<1>4. fed \in Seq(Byte)
  BY <1>3
<1>5. QED  BY <1>1, <1>2, <1>3, <1>4 DEF CrcInv

(* Each call of the function takes the register on by its buffer.          *)
LEMMA CrcUpdateKeeps ==
  ASSUME Crc64Assumption, CrcInv, NEW address \in 0..(WordBytes - 1), NEW data \in Buffers,
         CrcUpdate(address, data)
  PROVE  CrcInv' /\ data \in Seq(Byte) /\ fed' = fed \o data
<1> DEFINE v == PutBytes(Not({}), fed)
<1>1. data \in Seq(Byte)
  <2>1. Len(fed) \in Nat /\ MaxLength \in Nat
    BY DEF CrcInv, Crc64Assumption
  <2>2. PICK n \in 0..(MaxLength - Len(fed)) : data \in [1..n -> Byte]
    BY DEF Buffers
  <2>3. n \in Nat
    BY <2>1
  <2>4. QED  BY <2>2, <2>3
<1>2. crc' = crc64(crc, address, data) /\ fed' = fed \o data
  BY DEF CrcUpdate
<1>3. address \in Nat
  OBVIOUS
<1>4. crc \in Words /\ fed \in Seq(Byte) /\ crc = Not(v)
  BY DEF CrcInv
<1>5. crc' = Not(PutBytes(Not(crc), data))
  BY <1>1, <1>2, <1>3, <1>4, Crc64Is
<1>6. Not({}) \in Words
  BY DEF Words, Not
<1>7. Parts(fed', fed, data)
  BY <1>1, <1>2, <1>4 DEF Parts
<1>8. v \in Words /\ PutBytes(Not({}), fed') = PutBytes(v, data)
  BY <1>6, <1>7, PutParts
<1> HIDE DEF v
<1>9. Not(crc) = v
  BY <1>4, <1>8, NotIs
<1>10. PutBytes(v, data) \in Words
  BY <1>1, <1>8, PutJoined
<1>11. crc' \in Words /\ crc' = Not(PutBytes(Not({}), fed'))
  BY <1>5, <1>8, <1>9, <1>10, NotIs
<1>12. fed' \in Seq(Byte)
  BY <1>1, <1>2, <1>4, ConcatProperties
<1>13. QED  BY <1>1, <1>2, <1>11, <1>12 DEF CrcInv

(* The digest is the CRC of the whole of what was fed, for any width of    *)
(* words and bytes, any polynomial, and wherever the buffers begin and     *)
(* end: every step of the implementation is one of StreamHash.             *)
THEOREM CrcImplemented ==
  ASSUME Crc64Assumption
  PROVE  CrcSpec => Hash!StreamSpec
<1>1. CrcInit => CrcInv
  BY CrcInitial
<1>2. CrcInv /\ [CrcNext]_crcVars => CrcInv'
  <2> SUFFICES ASSUME CrcInv, [CrcNext]_crcVars PROVE CrcInv'
    OBVIOUS
  <2>1. ASSUME NEW address \in 0..(WordBytes - 1), NEW data \in Buffers, CrcUpdate(address, data)
        PROVE  CrcInv'
    BY <2>1, CrcUpdateKeeps
  <2>2. CASE CrcFinish \/ UNCHANGED crcVars
    <3>1. crc' = crc /\ fed' = fed
      BY <2>2 DEF CrcFinish, crcVars
    <3>2. QED  BY <3>1 DEF CrcInv
  <2>3. QED  BY <2>1, <2>2 DEF CrcNext
<1>3. CrcInit => Hash!StreamInit
  BY DEF CrcInit, Hash!StreamInit, CrcNames
<1>4. CrcInv /\ [CrcNext]_crcVars => [Hash!StreamNext]_<<"CRC64", fed, out>>
  <2> SUFFICES ASSUME CrcInv, [CrcNext]_crcVars
               PROVE  [Hash!StreamNext]_<<"CRC64", fed, out>>
    OBVIOUS
  <2>1. ASSUME NEW address \in 0..(WordBytes - 1), NEW data \in Buffers, CrcUpdate(address, data)
        PROVE  Hash!Update
    <3>1. data \in Seq(Byte) /\ fed \in Seq(Byte) /\ fed' = fed \o data
      BY <2>1, CrcUpdateKeeps DEF CrcInv
    <3>2. fed' \in Seq(Byte) /\ Hash!IsPrefix(fed, fed')
      <4>1. fed \o data \in Seq(Byte) /\ Len(fed \o data) = Len(fed) + Len(data)
        BY <3>1, ConcatProperties
      <4>2. SubSeq(fed \o data, 1, Len(fed)) = SubSeq(fed, 1, Len(fed))
        <5>1. CASE fed = <<>>
          BY <3>1, <5>1, SubSeqEmpty
        <5>2. CASE fed # <<>>
          <6>1. 1 \in 1..Len(fed) /\ Len(fed) \in 1..Len(fed)
            BY <3>1, <5>2
          <6>2. QED  BY <3>1, <6>1, SubSeqOfConcat1
        <5>3. QED  BY <5>1, <5>2
      <4>3. QED  BY <3>1, <4>1, <4>2 DEF Hash!IsPrefix
    <3>3. out = <<>> /\ out' = out
      BY <2>1 DEF CrcUpdate
    <3>4. QED  BY <3>2, <3>3 DEF Hash!Update, CrcByte
  <2>2. ASSUME CrcFinish PROVE Hash!Finish
    <3>1. out' = <<CrcDigest(fed)>>
      BY <2>2, DigestIs DEF CrcFinish
    <3>2. QED  BY <2>2, <3>1 DEF CrcFinish, Hash!Finish, HashDigest
  <2>3. CASE UNCHANGED crcVars
    BY <2>3 DEF crcVars
  <2>4. QED  BY <2>1, <2>2, <2>3 DEF CrcNext, Hash!StreamNext
<1>5. QED  BY <1>1, <1>2, <1>3, <1>4, PTL DEF CrcSpec, Hash!StreamSpec
=============================================================================

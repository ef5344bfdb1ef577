------------------------------- MODULE Crc64 --------------------------------
(***************************************************************************)
(* crc64 (crc64.cpp) takes eight bytes at a time with eight tables; the    *)
(* part before an address and the rest go byte by byte.  Words and bytes   *)
(* are sets of bit positions, 0 the least significant; their width is a    *)
(* constant, since no step depends on it.                                  *)
(***************************************************************************)
EXTENDS Naturals, Sequences, FiniteSetsExt

CONSTANTS
  ByteBits,   \* bits of a byte
  WordBytes,  \* bytes of the register, and tables used
  Poly,       \* the reflected polynomial
  MaxLength   \* bound on the bytes fed

WordBits == ByteBits * WordBytes
Words == SUBSET (0..(WordBits - 1))
Byte == SUBSET (0..(ByteBits - 1))

Crc64Assumption ==
  /\ ByteBits \in Nat \ {0} /\ WordBytes \in Nat \ {0} /\ MaxLength \in Nat
  /\ Poly \in Words

VARIABLES
  crc,       \* Crc64HashContext::crc
  fed, out   \* as in StreamHash

crcVars == <<crc, fed, out>>

Not(w) == (0..(WordBits - 1)) \ w
Right(w, n) == {i - n : i \in {b \in w : b >= n}}
Low(w) == w \cap (0..(ByteBits - 1))

(* crc_table[0]: one byte, bit by bit.                                     *)
OneBit(w) == SymDiff(Right(w, 1), IF 0 \in w THEN Poly ELSE {})
Bits[n \in 0..ByteBits] == [i \in Byte |-> IF n = 0 THEN i ELSE OneBit(Bits[n - 1][i])]

(* crc_table: each further table shifts by one byte more.                  *)
crc_table[slice \in 0..(WordBytes - 1)] == [i \in Byte |->
  IF slice = 0 THEN Bits[ByteBits][i]
  ELSE LET w == crc_table[slice - 1][i]
       IN  SymDiff(Right(w, ByteBits), Bits[ByteBits][Low(w)])]

PutByte(w, byte) == SymDiff(crc_table[0][Low(SymDiff(w, byte))], Right(w, ByteBits))
PutBytes(w, bytes) ==
  LET after[n \in 0..Len(bytes)] == IF n = 0 THEN w ELSE PutByte(after[n - 1], bytes[n])
  IN  after[Len(bytes)]

(* A word from memory, least significant byte first.                       *)
LittleEndian(bytes) ==
  UNION {{b + (i - 1) * ByteBits : b \in bytes[i]} : i \in DOMAIN bytes}

SliceOf(i) == i

PutWord(w, bytes) ==
  LET value == SymDiff(LittleEndian(bytes), w)
      byte(i) == Low(Right(value, (WordBytes - 1 - i) * ByteBits))
      sum[i \in 0..(WordBytes - 1)] ==
        IF i = 0 THEN crc_table[SliceOf(0)][byte(0)]
        ELSE SymDiff(sum[i - 1], crc_table[SliceOf(i)][byte(i)])
  IN  sum[WordBytes - 1]

(* The whole words of a buffer, then what is left of it.                   *)
PutAligned(w, buf) ==
  LET words == Len(buf) \div WordBytes
      off == words * WordBytes
      after[k \in 0..words] ==
        IF k = 0 THEN w
        ELSE PutWord(after[k - 1], SubSeq(buf, (k - 1) * WordBytes + 1, k * WordBytes))
  IN  PutBytes(after[words], SubSeq(buf, off + 1, Len(buf)))

(* crc64: the address's distance from the word before it is what it takes  *)
(* byte by byte, at most all there is.                                     *)
crc64(start, address, buf) ==
  LET to_align == IF address < Len(buf) THEN address ELSE Len(buf)
      first == PutBytes(Not(start), SubSeq(buf, 1, to_align))
  IN  Not(PutAligned(first, SubSeq(buf, to_align + 1, Len(buf))))

CrcInit == crc = {} /\ fed = <<>> /\ out = <<>>

CrcUpdate(address, data) ==
  /\ out = <<>>
  /\ crc' = crc64(crc, address, data)
  /\ fed' = fed \o data
  /\ UNCHANGED out

(* Finish writes the most significant byte first.                          *)
Shift(i) == WordBytes - i
BigEndian(w) == [i \in 1..WordBytes |-> Low(Right(w, Shift(i) * ByteBits))]

CrcFinish ==
  /\ out = <<>>
  /\ out' = <<BigEndian(crc)>>
  /\ UNCHANGED <<crc, fed>>

Buffers == UNION {[1..n -> Byte] : n \in 0..(MaxLength - Len(fed))}
CrcNext == \/ \E address \in 0..(WordBytes - 1), data \in Buffers : CrcUpdate(address, data)
           \/ CrcFinish
CrcSpec == CrcInit /\ [][CrcNext]_crcVars
-----------------------------------------------------------------------------
(* The reflected CRC by its definition: every bit of the stream, from the  *)
(* least significant of each byte, divided by the polynomial.              *)
Reference(data) ==
  LET Bit(n) == IF (n - 1) % ByteBits \in data[(n - 1) \div ByteBits + 1] THEN {0} ELSE {}
      after[n \in 0..(ByteBits * Len(data))] ==
        IF n = 0 THEN Not({}) ELSE OneBit(SymDiff(after[n - 1], Bit(n)))
  IN  Not(after[ByteBits * Len(data)])

(* Its value, read as a number from the digest's bytes in order.           *)
CrcDigest(data) ==
  [i \in 1..WordBytes |-> {b \in 0..(ByteBits - 1) :
    b + (WordBytes - i) * ByteBits \in Reference(data)}]
=============================================================================

------------------------------- MODULE Codec --------------------------------
(***************************************************************************)
(* The conversions of utl.h, utl.cpp and base64.cpp: hexadecimal hashes,   *)
(* base64, string tables, version numbers and paths.  A character is its   *)
(* code, a text a sequence of characters, a hash a sequence of bytes.      *)
(* Indexes are those of the code, from 0.                                  *)
(***************************************************************************)
EXTENDS Naturals, Integers, Sequences, SequencesExt, FiniteSetsExt, Selection

CONSTANTS
  SizeMod,    \* 2^w of size_t
  PartMod,    \* 2^16: the parts of a version are uint16_t
  TableSize   \* strings in a string table, 16

ASSUME CodecAssumption ==
  /\ SizeMod \in Nat \ {0} /\ PartMod \in Nat \ {0}
  /\ TableSize \in Nat \ {0}

Blank == 32
Pad == 61
Backslash == 92
-----------------------------------------------------------------------------
(* utl::hex, utl::unhex: 0xFF is no digit.                                 *)
Hex_UpToTen(n, upper) == IF n =< 10 THEN 48 + n ELSE (IF upper THEN 65 ELSE 97) + (n - 10)
Hex(n, upper) == IF n < 10 THEN 48 + n ELSE (IF upper THEN 65 ELSE 97) + (n - 10)

Unhex(ch) ==
  CASE ch \in 48..57  -> ch - 48
    [] ch \in 97..102 -> ch - 97 + 10
    [] ch \in 65..70  -> ch - 65 + 10
    [] OTHER          -> 255

HashBytesToString(hash, upper) ==
  [k \in 1..(2 * Len(hash)) |->
     LET byte == hash[(k + 1) \div 2]
     IN  Hex(IF k % 2 = 1 THEN byte \div 16 ELSE byte % 16, upper)]

(* A read of str: behind the text is what stands outside of it, the rest   *)
(* of a mapped file or a terminator.  Bound of the model: behind outside   *)
(* come zeros.                                                             *)
End(str, outside) == Len(str) + Len(outside)
Char(str, i, outside) ==
  IF i < Len(str) THEN str[i + 1]
  ELSE IF i < End(str, outside) THEN outside[i - Len(str) + 1] ELSE 0

(* str.size() - 1, which wraps for an empty text: both loops then go on    *)
(* behind it, and only what is no digit ends them.                         *)
Bound(str) == (Len(str) - 1) % SizeMod

(* The inner loop: skip blanks, up to the bound.                           *)
SkipBlanks_Unbounded(str, i, outside) ==
  Min({j \in i..End(str, outside) : Char(str, j, outside) # Blank})
SkipBlanks(str, i, outside) ==
  Min({j \in i..End(str, outside) : j >= Bound(str) \/ Char(str, j, outside) # Blank})

Invalid == <<-1>>
HashStringToBytes(str, outside) ==
  LET from[i \in 0..(End(str, outside) + 2)] ==
        IF i >= Bound(str) \/ i > End(str, outside) THEN <<>>
        ELSE LET j == SkipBlanks(str, i, outside)
                 a == Unhex(Char(str, j, outside))
                 b == Unhex(Char(str, j + 1, outside))
                 rest == from[j + 2]
             IN  IF a = 255 \/ b = 255 \/ rest = Invalid THEN Invalid
                 ELSE <<a * 16 + b>> \o rest
  IN  IF from[0] = Invalid THEN <<>> ELSE from[0]
-----------------------------------------------------------------------------
(* base64.cpp: the tables, encode and decode.                              *)
EncodeTable == [n \in 0..63 |->
  CASE n < 26 -> 65 + n [] n \in 26..51 -> 71 + n [] n \in 52..61 -> n - 4
    [] n = 62 -> 43 [] n = 63 -> 47]

DecodeTable(c) ==
  CASE c \in 65..90 -> c - 65 [] c \in 97..122 -> c - 71 [] c \in 48..57 -> c + 4
    [] c \in {43, 45, 46} -> 62 [] c \in {44, 47, 95} -> 63 [] OTHER -> 0

(* The four characters of a group of three bytes; what is missing is 0 or  *)
(* the pad.                                                                *)
Group(src, g) ==
  LET Byte(i) == IF i <= Len(src) THEN src[i] ELSE 0
      b0 == Byte(3 * g - 2)
      b1 == Byte(3 * g - 1)
      b2 == Byte(3 * g)
  IN  <<EncodeTable[b0 \div 4],
        EncodeTable[(b0 % 4) * 16 + b1 \div 16],
        IF 3 * g - 1 <= Len(src) THEN EncodeTable[(b1 % 16) * 4 + b2 \div 64] ELSE Pad,
        IF 3 * g <= Len(src) THEN EncodeTable[b2 % 64] ELSE Pad>>

Encode(src) ==
  [k \in 1..(4 * ((Len(src) + 2) \div 3)) |-> Group(src, (k + 3) \div 4)[((k + 3) % 4) + 1]]

(* Whether the last, shorter group is decoded apart, and where it begins.  *)
Padded(str) == Len(str) > 0 /\ (Len(str) % 4 # 0 \/ str[Len(str)] = Pad)
LastGroup(str) == ((Len(str) + 3) \div 4 - IF Padded(str) THEN 1 ELSE 0) * 4

Sextet(str, i) == IF i < Len(str) THEN DecodeTable(str[i + 1]) ELSE 0
FirstByte(str, i) == Sextet(str, i) * 4 + Sextet(str, i + 1) \div 16
SecondByte(str, i) == (Sextet(str, i + 1) % 16) * 16 + Sextet(str, i + 2) \div 4
ThirdByte(str, i) == (Sextet(str, i + 2) % 4) * 64 + Sextet(str, i + 3)

Decode(str) ==
  LET L == LastGroup(str)
      whole == [k \in 1..(3 * (L \div 4)) |->
                  LET i == 4 * ((k - 1) \div 3)
                  IN  <<FirstByte(str, i), SecondByte(str, i), ThirdByte(str, i)>>[((k - 1) % 3) + 1]]
      rest == IF Len(str) > L + 2 /\ str[L + 3] # Pad
              THEN <<FirstByte(str, L), SecondByte(str, L)>> ELSE <<FirstByte(str, L)>>
  IN  IF Padded(str) THEN whole \o rest ELSE whole
-----------------------------------------------------------------------------
(* load_string: a table is a sequence of words, each string behind its     *)
(* length; the walk ends one word before the end.                          *)
TableEntry(id) == id % TableSize

LoadString(words, id) ==
  LET end == Len(words) - 1
      it[i \in 0..(TableSize - 1)] ==
        IF i = 0 THEN 0
        ELSE IF it[i - 1] >= end THEN it[i - 1] ELSE it[i - 1] + 1 + words[it[i - 1] + 1]
      at == it[TableEntry(id)]
  IN  IF at >= end THEN <<>> ELSE SubSeq(words, at + 2, at + 1 + words[at + 1])

(* Version::AsNumber.                                                      *)
AsNumber(v) == v[1] * PartMod * PartMod + v[2] * PartMod + v[3]

(* MakePathLongCompatible: \\?\ in front, unless the path begins with \\.  *)
LongPrefix == <<Backslash, Backslash, 63, Backslash>>
MakePathLongCompatible(file) ==
  IF Len(file) < 2 \/ SubSeq(file, 1, 2) # <<Backslash, Backslash>>
  THEN LongPrefix \o file ELSE file
-----------------------------------------------------------------------------
CONSTANTS
  Bytes, MaxBytes,   \* bounds of the hashes tried
  Chars, MaxChars,   \* bounds of the texts tried
  OutsideChars, MaxOutside, \* bounds of what stands behind a text
  TableWords         \* the lengths of the strings in the tables tried

(* A text is in memory, so its length is a size_t, and so is that of what  *)
(* stands behind it.                                                       *)
ASSUME InputsAssumption ==
  /\ Bytes \subseteq 0..255 /\ MaxBytes \in Nat /\ 3 * MaxBytes < SizeMod
  /\ Chars \subseteq Nat /\ MaxChars \in Nat /\ MaxChars < SizeMod
  /\ OutsideChars \subseteq Nat /\ MaxOutside \in Nat /\ MaxOutside + 1 < SizeMod
  /\ TableWords \subseteq Nat

VARIABLES job, input, result
codecVars == <<job, input, result>>

AnyOutside == BoundedSeq(OutsideChars, MaxOutside)
Parts == 0..(PartMod - 1)

(* A job is one call; its input is chosen first, its result computed next. *)
CodecInit ==
  /\ \/ job = "hash" /\ input \in BoundedSeq(Bytes, MaxBytes)
     \/ job = "text" /\ input \in BoundedSeq(Chars, MaxChars)
     \/ job = "table" /\ input \in [1..TableSize -> TableWords]
     \/ job = "versions" /\ input \in [{"old", "new"} -> Parts \X Parts \X Parts]
  /\ result = <<>>

(* A text of n letters, and a table of strings of the given lengths.       *)
Letters(i, n) == [k \in 1..n |-> 100 * i + k]
TableOf(lengths) ==
  LET upto[n \in 0..TableSize] ==
        IF n = 0 THEN <<>> ELSE upto[n - 1] \o <<lengths[n]>> \o Letters(n, lengths[n])
  IN  upto

Call ==
  /\ result = <<>>
  /\ \/ /\ job = "hash"
        /\ result' = <<[hex |-> [u \in BOOLEAN |-> HashBytesToString(input, u)],
                        base64 |-> Encode(input)]>>
     \/ /\ job = "text"
        /\ result' = <<[bytes |-> HashStringToBytes(input, <<>>),
                        path |-> MakePathLongCompatible(input)]>>
     \/ /\ job = "table"
        /\ result' = <<[i \in 0..(TableSize - 1) |-> LoadString(TableOf(input)[TableSize], TableSize + i)]>>
     \/ /\ job = "versions"
        /\ result' = <<AsNumber(input["new"]) > AsNumber(input["old"])>>
  /\ UNCHANGED <<job, input>>

CodecNext == Call
CodecSpec == CodecInit /\ [][CodecNext]_codecVars
Called(j) == job = j /\ result # <<>>
-----------------------------------------------------------------------------
(* What was written is read as what it was: a hash in hexadecimal, in      *)
(* either case, with or without a blank before each byte (so the box after *)
(* formatting, a copied row and a checksum file mean the same hash), and   *)
(* in base64 with or without padding; every string of a string table, an   *)
(* empty one at its end too; versions compare part by part; and a path     *)
(* made long, as NormalizePath and OpenForRead both do, is not made longer *)
(* again.                                                                  *)
HexReadBack ==
  \A u, blanks \in BOOLEAN, o \in {<<>>, <<48, 48>>} :
    LET text == result[1].hex[u]
        spaced == [k \in 1..(3 * Len(input)) |->
                     IF k % 3 = 1 THEN Blank ELSE text[k - (k + 2) \div 3]]
    IN  input # <<>> => HashStringToBytes(IF blanks THEN spaced ELSE text, o) = input

Base64ReadBack ==
  LET padded == result[1].base64
      bare == Selected(padded, {i \in DOMAIN padded : padded[i] # Pad})
  IN  Decode(padded) = input /\ Decode(bare) = input

PartByPart(n, o) ==
  \/ n[1] > o[1]
  \/ n[1] = o[1] /\ n[2] > o[2]
  \/ n[1] = o[1] /\ n[2] = o[2] /\ n[3] > o[3]

ConversionsInvert ==
  /\ Called("hash") => HexReadBack /\ Base64ReadBack
  /\ Called("table") => \A i \in 1..TableSize : result[1][i - 1] = Letters(i, input[i])
  /\ Called("versions") => result[1] = PartByPart(input["new"], input["old"])
  /\ Called("text") => /\ MakePathLongCompatible(result[1].path) = result[1].path
                       /\ IsSuffix(input, result[1].path)

(* A text means a hash only if it is pairs of digits with blanks before    *)
(* pairs, and at most one more character, whatever it is.  What stands     *)
(* behind a text never changes its bytes, if its first character is no     *)
(* digit (after blanks the loop of HashStringToBytes looks at that one):   *)
(* the texts of windows end in a NUL, those of files before a blank, a     *)
(* line end or the zeros behind the file.  Of an empty text it changes     *)
(* nothing at all: its walk has no end but an invalid digit, so it reads   *)
(* on through the blanks and digits behind, and ends without bytes.        *)
ArePairs(text, bytes) ==
  /\ Len(text) = 2 * Len(bytes)
  /\ \A i \in 1..Len(bytes) : bytes[i] = 16 * Unhex(text[2*i - 1]) + Unhex(text[2*i])
  /\ \A i \in DOMAIN text : text[i] \in 48..57 \cup 65..70 \cup 97..102

MeansItsPairs(text, bytes) ==
  LET body(cut) == Collected(text, {i \in DOMAIN text : text[i] # Blank})[Len(text) - cut]
  IN  /\ Len(bytes) > 0 => ArePairs(body(0), bytes) \/ ArePairs(body(1), bytes)
      /\ \A o \in AnyOutside :
           text = <<>> \/ Unhex(Char(text, Len(text), o)) = 255
             => HashStringToBytes(text, o) = bytes

TextMeansItsPairs == Called("text") => MeansItsPairs(input, result[1].bytes)
=============================================================================

------------------------------ MODULE Streams -------------------------------
(***************************************************************************)
(* The contexts of the algorithms that the repository implements itself,   *)
(* fed with blocks of any length by the thread pool; each implements       *)
(* StreamHash.  One variable says which algorithm a behaviour is of.  The  *)
(* numbers are bounds: a chunk of three bytes for eD2k, words of three     *)
(* bytes of two bits for CRC64, and two leaves with blocks of two bytes    *)
(* and a counter that wraps at four for BLAKE2sp.                          *)
(***************************************************************************)
EXTENDS Naturals, Sequences

VARIABLES
  algorithm, fed, out,                                    \* as in StreamHash
  current_chunk, root_hash, last_chunk_hash, hashed,      \* of eD2k
  crc,                                                    \* of CRC64
  S, bufPos                                               \* of BLAKE2sp

ed2kVars == <<current_chunk, root_hash, last_chunk_hash, hashed>>
blake2spVars == <<S, bufPos>>
streamVars == <<algorithm, fed, out, ed2kVars, crc, blake2spVars>>

StreamNames == {"eD2k", "eD2k (Old)", "CRC64", "BLAKE2sp"}
TwoBytes == {"zero", "one"}

New == INSTANCE Ed2k WITH Byte <- TwoBytes, ChunkSize <- 3, BlockSize <- 3,
                          ExtraNullVersion <- FALSE, MaxLength <- 9
Old == INSTANCE Ed2k WITH Byte <- TwoBytes, ChunkSize <- 3, BlockSize <- 3,
                          ExtraNullVersion <- TRUE, MaxLength <- 9
Crc == INSTANCE Crc64 WITH ByteBits <- 2, WordBytes <- 3, Poly <- {1, 2, 5}, MaxLength <- 5
Blake == INSTANCE Blake2sp WITH Byte <- TwoBytes, Zero <- "zero", BlockSize <- 2,
                                DigestSize <- 2, Degree <- 2, WordMod <- 4, MaxLength <- 9

ASSUME StreamsAssumption ==
  New!Ed2kAssumption /\ Old!Ed2kAssumption /\ Crc!Crc64Assumption /\ Blake!BlakeAssumption

(* All contexts are there, as in a file task; one of them is fed.          *)
StreamsInit ==
  /\ algorithm \in StreamNames
  /\ New!Ed2kInit /\ Crc!CrcInit /\ Blake!Blake2sp_Init

StreamsNext ==
  /\ \/ algorithm = "eD2k" /\ New!Ed2kNext /\ UNCHANGED <<crc, blake2spVars>>
     \/ algorithm = "eD2k (Old)" /\ Old!Ed2kNext /\ UNCHANGED <<crc, blake2spVars>>
     \/ algorithm = "CRC64" /\ Crc!CrcNext /\ UNCHANGED <<ed2kVars, blake2spVars>>
     \/ algorithm = "BLAKE2sp" /\ Blake!BlakeNext /\ UNCHANGED <<ed2kVars, crc>>
  /\ UNCHANGED algorithm

StreamsSpec == StreamsInit /\ [][StreamsNext]_streamVars
-----------------------------------------------------------------------------
StreamByte(name) == IF name = "CRC64" THEN Crc!Byte ELSE TwoBytes

(* The definitions of the algorithms, over the whole of what was fed.      *)
StreamDigest(name, data) ==
  CASE name = "eD2k"       -> New!Ed2kDigest(data)
    [] name = "eD2k (Old)" -> Old!Ed2kDigest(data)
    [] name = "CRC64"      -> Crc!CrcDigest(data)
    [] name = "BLAKE2sp"   -> Blake!BlakeDigest(data)

(* The digest is that of the whole file, whatever blocks it was read in    *)
(* and wherever these lay in memory.  A block may end one chunk of eD2k    *)
(* and begin another, or end exactly with it; slicing and the alignment    *)
(* loop of CRC64 change nothing; no leaf of BLAKE2sp compresses its last   *)
(* block before the end, takes part of another's, or keeps old bytes       *)
(* behind a short block, and the counter carries into its second word.     *)
Abstract == INSTANCE StreamHash WITH
              Names <- StreamNames, Byte <- StreamByte, Digest <- StreamDigest
StreamsAreHashes == Abstract!StreamSpec
=============================================================================

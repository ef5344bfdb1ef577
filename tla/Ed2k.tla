-------------------------------- MODULE Ed2k --------------------------------
(***************************************************************************)
(* ED2kHashContext (Hasher2.cpp): MD4 of each chunk of the file, and MD4   *)
(* of these digests; the old version adds the digest of an empty chunk to  *)
(* a file that ends with a chunk.  MD4 is collision free here: the digest  *)
(* of x is <<x>>, and an unfinished context is what was fed to it.         *)
(***************************************************************************)
EXTENDS Naturals, Sequences, SequencesExt

CONSTANTS
  Byte,
  ChunkSize,   \* k_chunk_size
  BlockSize,   \* the most that one Update is given (k_block_size of FileHashTask)
  ExtraNullVersion,  \* the template's parameter
  MaxLength    \* bound on the bytes fed

(* A buffer is cut once, so it must not reach into a third chunk.          *)
Ed2kAssumption ==
  /\ ChunkSize \in Nat \ {0} /\ BlockSize \in Nat /\ MaxLength \in Nat
  /\ BlockSize <= ChunkSize /\ ExtraNullVersion \in BOOLEAN

VARIABLES
  current_chunk, root_hash, last_chunk_hash, hashed,
  fed, out     \* as in StreamHash

context == <<current_chunk, root_hash, last_chunk_hash, hashed>>
edVars == <<context, fed, out>>

MD4(data) == <<data>>

Ed2kInit ==
  /\ current_chunk = <<>> /\ root_hash = <<>>
  /\ last_chunk_hash = MD4(<<>>)  \* 31d6cfe0...
  /\ hashed = 0
  /\ fed = <<>> /\ out = <<>>

Context == [current_chunk |-> current_chunk, root_hash |-> root_hash,
            last_chunk_hash |-> last_chunk_hash, hashed |-> hashed]

UpdateInternal(c, data) ==
  LET chunk == c.current_chunk \o data
      n == c.hashed + Len(data)
  IN  IF data # <<>> /\ n % ChunkSize = 0
      THEN [current_chunk |-> <<>>, hashed |-> n, last_chunk_hash |-> MD4(chunk),
            root_hash |-> Append(c.root_hash, MD4(chunk))]
      ELSE [c EXCEPT !.current_chunk = chunk, !.hashed = n]

NeededForNextChunk == (hashed \div ChunkSize + 1) * ChunkSize - hashed

Ed2kUpdate(data) ==
  LET first == IF NeededForNextChunk < Len(data) THEN NeededForNextChunk ELSE Len(data)
      c == UpdateInternal(UpdateInternal(Context, SubSeq(data, 1, first)),
                          SubSeq(data, first + 1, Len(data)))
  IN  /\ out = <<>>
      /\ current_chunk' = c.current_chunk /\ root_hash' = c.root_hash
      /\ last_chunk_hash' = c.last_chunk_hash /\ hashed' = c.hashed
      /\ fed' = fed \o data
      /\ UNCHANGED out

WithPartial == MD4(Append(root_hash, MD4(current_chunk)))

Short_OrEqual == hashed <= ChunkSize
Short == hashed < ChunkSize

Ed2kFinish ==
  /\ out = <<>>
  /\ LET whole == ~Short /\ ~ExtraNullVersion /\ hashed % ChunkSize = 0
     IN  out' = << CASE Short                           -> MD4(current_chunk)
                     [] whole /\ hashed = ChunkSize -> last_chunk_hash
                     [] whole /\ hashed # ChunkSize -> MD4(root_hash)
                     [] OTHER                           -> WithPartial >>
  /\ UNCHANGED <<context, fed>>

Buffers == UNION {[1..n -> Byte] : n \in 0..BlockSize}
Ed2kNext == \/ \E data \in Buffers : Len(fed) + Len(data) <= MaxLength /\ Ed2kUpdate(data)
            \/ Ed2kFinish
Ed2kSpec == Ed2kInit /\ [][Ed2kNext]_edVars
-----------------------------------------------------------------------------
(* The definition of the two versions, by whole chunks of the whole file.  *)
Chunk(data, i) ==
  SubSeq(data, (i - 1) * ChunkSize + 1,
         IF i * ChunkSize < Len(data) THEN i * ChunkSize ELSE Len(data))
Chunks(data, n) == [i \in 1..n |-> MD4(Chunk(data, i))]
Ed2kDigest(data) ==
  LET whole == Len(data) \div ChunkSize
      begun == IF Len(data) % ChunkSize = 0 THEN whole ELSE whole + 1
      n == IF ExtraNullVersion THEN whole + 1 ELSE begun
  IN  IF n <= 1 THEN MD4(data) ELSE MD4(Chunks(data, n))
=============================================================================

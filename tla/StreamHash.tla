----------------------------- MODULE StreamHash -----------------------------
(***************************************************************************)
(* What an algorithm of the library promises the thread pool, which feeds  *)
(* a file to it block by block: the digest is a function of all bytes fed, *)
(* however they were divided between the calls of Update.                  *)
(***************************************************************************)
EXTENDS Sequences, SequencesExt

CONSTANTS
  Names,       \* of algorithms
  Byte(_),     \* the bytes an algorithm takes
  Digest(_, _) \* by an algorithm, the digest of a sequence of bytes

VARIABLES
  algorithm,
  fed,  \* the bytes given to Update so far
  out   \* <<>>, or <<the digest>> once Finish was called

StreamInit == algorithm \in Names /\ fed = <<>> /\ out = <<>>

Update ==
  /\ out = <<>>
  /\ fed' \in Seq(Byte(algorithm)) /\ IsPrefix(fed, fed')
  /\ UNCHANGED <<algorithm, out>>

Finish ==
  /\ out = <<>>
  /\ out' = <<Digest(algorithm, fed)>>
  /\ UNCHANGED <<algorithm, fed>>

StreamNext == Update \/ Finish
StreamSpec == StreamInit /\ [][StreamNext]_<<algorithm, fed, out>>
=============================================================================

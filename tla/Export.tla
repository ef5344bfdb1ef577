------------------------------- MODULE Export -------------------------------
(***************************************************************************)
(* Exporter.cpp writes a checksum file, SaveMemoryAsFile stores it, and    *)
(* TryParseSumFile (SumFile) reads it back.  A name is what the parser can *)
(* tell apart about it: [first, blank, digits, eight] are its first        *)
(* character, whether it has blanks, whether it is "pairs" of hexadecimal  *)
(* digits (with blanks before some), pairs and one character more, "odd",  *)
(* which HashStringToBytes ignores at the end of a text, or neither, "no", *)
(* and whether it is eight digits.                                         *)
(***************************************************************************)
EXTENDS SumFile, Selection

CONSTANTS
  Names,          \* the files' names, in the order of SortByName
  AlgorithmCount, \* algorithms are numbered from 0
  Exporters,      \* [kind, algs]: "sfv" and "hash", and "sum" of one algorithm
  Enabled, Hashed \* sets of algorithms enabled now, and when the files were hashed

NameKinds ==
  {n \in [first : {"sharp", "semicolon", "other"}, blank : BOOLEAN,
          digits : {"pairs", "odd", "no"}, eight : BOOLEAN] :
     /\ n.digits # "no" => n.first = "other"
     /\ n.eight => n.digits = "pairs"}

AllAlgs == 0..(AlgorithmCount - 1)
ASSUME ExportAssumption ==
  /\ Names \in Seq(NameKinds) /\ AlgorithmCount \in Nat
  /\ \A s \in Enabled \cup Hashed : s \subseteq AllAlgs
  /\ \A e \in Exporters : e.kind \in {"sfv", "hash", "sum"} /\ e.algs \in Seq(AllAlgs)

VARIABLES
  job,    \* exporter, settings, and the files with their names, errors and results
  saved,  \* what SaveMemoryAsFile did: "no", "yes", "error"
  whole   \* ghost: the lines exported

exportVars == <<job, saved, whole>>
allVars == <<exportVars, sumVars>>

Files == {f \in [DOMAIN Names -> {"absent", "failed", "hashed"}] :
            \E i \in DOMAIN Names : f[i] # "absent"}

ExportInit ==
  /\ job \in [exporter : Exporters, banner : BOOLEAN, double_space : BOOLEAN,
              dot_hash_compatible : BOOLEAN, enabled : Enabled, hashed : Hashed, files : Files]
  \* the dialog offers what was enabled and is still
  /\ ToSet(job.exporter.algs) \subseteq job.hashed
  /\ saved = "no" /\ whole = <<>>
  /\ size = "tiny" /\ lines = <<>> /\ pc = "export"
  /\ mapping = FALSE /\ view = FALSE
  /\ comment = "unknown" /\ hash = "unknown" /\ at = 0 /\ files = <<>>
  /\ output = <<>> /\ error = FALSE

(* The files without an error, by SortByName, and the enabled algorithms.  *)
Sorted == Selected(Names, {i \in DOMAIN Names : job.files[i] = "hashed"})
EnabledAlgs ==
  Selected([i \in 1..AlgorithmCount |-> i - 1], {i \in 1..AlgorithmCount : i - 1 \in job.enabled})

(* Lines as the parser tells them apart, with what they were written for.  *)
Comment(sign) ==
  [first |-> sign, sfv |-> FALSE, hex |-> FALSE, base64 |-> FALSE, digits |-> FALSE,
   readable |-> TRUE, style |-> "none"]
Banner(sign) == IF job.banner THEN [i \in 1..3 |-> Comment(sign)] ELSE <<>>

(* "name hash"; a name of pairs and one character more leaves a pair with  *)
(* a blank in it.                                                          *)
SfvLine(n) ==
  [first |-> n.first, sfv |-> ~n.blank, hex |-> FALSE, base64 |-> FALSE,
   digits |-> n.digits = "pairs", readable |-> TRUE, style |-> "sfv"]

(* "hash  name" or "hash *name"; without a result the hash is empty.  With *)
(* two blanks the whole line may be one hash: of "deadbeef  feeds" the     *)
(* last character is ignored.                                              *)
SumLine(n, double, result) ==
  [first |-> "other", sfv |-> result /\ double /\ n.eight, hex |-> result, base64 |-> result,
   digits |-> double /\ n.digits # "no", readable |-> TRUE, style |-> "hex"]

SFVString == Banner("semicolon") \o [i \in DOMAIN Sorted |-> SfvLine(Sorted[i])]

(* The sign of the comments of corz .hash, which stand before each line.   *)
CorzSign_Semicolon == "semicolon"
CorzSign == "sharp"

WriteHash(n, alg, dot_hash) ==
  (IF dot_hash \/ job.dot_hash_compatible THEN <<Comment(CorzSign)>> ELSE <<>>)
  \o <<SumLine(n, ~dot_hash /\ job.double_space, alg \in job.hashed)>>

SumfileString(algs, dot_hash) ==
  LET N == Len(algs)
      after[k \in 0..(Len(Sorted) * N)] ==
        IF k = 0 THEN Banner("sharp")
        ELSE after[k - 1] \o WriteHash(Sorted[(k - 1) \div N + 1], algs[((k - 1) % N) + 1], dot_hash)
  IN  after[Len(Sorted) * N]

ExportString ==
  CASE job.exporter.kind = "sfv"  -> SFVString
    [] job.exporter.kind = "hash" -> SumfileString(EnabledAlgs, TRUE)
    [] job.exporter.kind = "sum"  -> SumfileString(job.exporter.algs, FALSE)

(* SaveMemoryAsFile: the file is created anew, so what was there is lost   *)
(* even if the content cannot be written, which is not read again here.    *)
Create ==
  /\ pc = "export"
  /\ whole' = ExportString
  /\ \/ saved' = "error" /\ pc' = "returned"
     \/ saved' = "no" /\ pc' = "write"
  /\ UNCHANGED <<job, fileVars, heldVars, parserVars, output, error>>

Write ==
  /\ pc = "write"
  /\ \/ /\ saved' = "yes" /\ pc' = "open"
        /\ lines' = whole
        /\ size' \in IF whole = <<>> THEN {"tiny"} ELSE {"small", "large"}
     \/ saved' = "error" /\ pc' = "returned" /\ UNCHANGED fileVars
  /\ UNCHANGED <<job, whole, heldVars, parserVars, output, error>>

ReadBack == SumFileNext /\ UNCHANGED exportVars

ExportNext == Create \/ Write \/ ReadBack
ExportSpec == ExportInit /\ [][ExportNext]_allVars
-----------------------------------------------------------------------------
Read == pc = "returned" /\ saved = "yes" /\ ~error

(* The entries that the lines exported stand for.                          *)
Expected ==
  Selected([i \in DOMAIN whole |-> Entry(i, whole[i].style)],
           {i \in DOMAIN whole : whole[i].style # "none"})

Named == {Names[i] : i \in {k \in DOMAIN Names : job.files[k] = "hashed"}}
AllHashed == job.exporter.kind = "hash" => job.enabled \subseteq job.hashed

(* What a later run of the program makes of an exported file: exactly the *)
(* files and hashes exported, with any banner and comments.  With " *"     *)
(* (the default, and .hash always) this is so whatever the names are;      *)
(* in the other formats if no name has a blank, begins with the sign of a  *)
(* comment, or consists of pairs of hexadecimal digits and at most one     *)
(* character more (a file of the single line "deadbeef  feeds" is read as  *)
(* one hash without a name); and for .hash if no algorithm was enabled     *)
(* after the files were hashed.                                            *)
Starred == job.exporter.kind = "hash" \/ (job.exporter.kind = "sum" /\ ~job.double_space)
PlainNames == \A n \in Named : n.first = "other" /\ ~n.blank /\ n.digits = "no"
ReadsBack == Read /\ AllHashed /\ (Starred \/ PlainNames) => output = Expected
=============================================================================

------------------------------ MODULE SumFile -------------------------------
(***************************************************************************)
(* TryParseSumFile and SumFileParser2 (SumFileParser.cpp): a file that may *)
(* be a checksum file is mapped, tried as a single hash, and otherwise     *)
(* read line by line; what a line looks like is abstracted to which of the *)
(* three regular expressions match it.                                     *)
(***************************************************************************)
EXTENDS Naturals, Sequences, SequencesExt

CONSTANT MaxLines   \* bound: the lines of a file

ASSUME SumFileAssumption == MaxLines \in Nat

(* A line that is not empty: its first character, the regular expressions  *)
(* that match it whole, whether HashStringToBytes reads it as one hash     *)
(* (pairs of digits with blanks before some, and at most one character     *)
(* more), and whether its name survives UTF8ToWide.                        *)
(* Hexadecimal digits are base64 digits as well; a line that begins with   *)
(* the sign of a comment can only match as a name before a hash.           *)
Lines ==
  {l \in [first : {"sharp", "semicolon", "other"}, sfv : BOOLEAN, hex : BOOLEAN, base64 : BOOLEAN,
          digits : BOOLEAN, readable : BOOLEAN] :
     /\ l.hex => l.base64
     /\ l.first # "other" => ~l.base64 /\ ~l.digits
     /\ ~l.sfv /\ ~l.base64 => l.readable}
BlankLine == [first |-> "blank"]

Sizes == {"tiny", "small", "large", "huge"}   \* below 6 bytes, up to 264, more, 4 GB

VARIABLES
  size, lines,   \* the file; BOM and line ends are skipped
  pc,            \* the next step
  mapping, view, \* what is held of the system
  comment, hash, \* SumFileParser2::_comment, _hash
  at,            \* the number of lines read
  files,         \* SumFileParser2::files: the line and the style of each
  output, error  \* what TryParseSumFile returns

fileVars == <<size, lines>>
heldVars == <<mapping, view>>
parserVars == <<comment, hash, at, files>>
sumVars == <<fileVars, pc, heldVars, parserVars, output, error>>

SumFileInit ==
  /\ size \in Sizes
  /\ lines \in BoundedSeq(Lines \cup {BlankLine}, MaxLines)
  /\ pc = "open"
  /\ mapping = FALSE /\ view = FALSE
  /\ comment = "unknown" /\ hash = "unknown"
  /\ at = 0
  /\ files = <<>>
  /\ output = <<>>
  /\ error = FALSE

Return(failed) == pc' = "returned" /\ error' = failed

(* GetFileInformationByHandle, and the files that are too small or large.  *)
Open ==
  /\ pc = "open"
  /\ \/ Return(TRUE)
     \/ size \in {"tiny", "huge"} /\ Return(FALSE)
     \/ size \in {"small", "large"} /\ pc' = "map" /\ UNCHANGED error
  /\ UNCHANGED <<fileVars, heldVars, parserVars, output>>

Map ==
  /\ pc = "map"
  /\ \/ Return(TRUE) /\ UNCHANGED mapping
     \/ mapping' = TRUE /\ pc' = "view" /\ UNCHANGED error
  /\ UNCHANGED <<fileVars, view, parserVars, output>>

(* MapViewOfFile; if it fails the mapping is closed.                       *)
View_MappingLeft ==
  /\ pc = "view"
  /\ \/ Return(TRUE) /\ UNCHANGED heldVars
     \/ view' = TRUE /\ pc' = "single" /\ UNCHANGED <<mapping, error>>
  /\ UNCHANGED <<fileVars, parserVars, output>>
View ==
  /\ pc = "view"
  /\ \/ Return(TRUE) /\ mapping' = FALSE /\ UNCHANGED view
     \/ view' = TRUE /\ pc' = "single" /\ UNCHANGED <<mapping, error>>
  /\ UNCHANGED <<fileVars, parserVars, output>>

(* The whole of a small file may be one hash, for whatever file; the view  *)
(* and the mapping stay open then.                                         *)
OneHash(all) ==
  \E i \in DOMAIN all : /\ all[i] # BlankLine /\ all[i].digits
                        /\ \A k \in DOMAIN all \ {i} : all[k] = BlankLine
IsSingle == size = "small" /\ OneHash(lines)
Entry(n, style) == [line |-> n, style |-> style]

Single ==
  /\ pc = "single"
  /\ IF IsSingle
     THEN output' = <<Entry(0, "single")>> /\ Return(FALSE)
     ELSE pc' = "lines" /\ UNCHANGED <<output, error>>
  /\ UNCHANGED <<fileVars, heldVars, parserVars>>

(* ProcessLine: a comment or an entry fixes the style of those after it.   *)
IsComment(l) == l.first \in {"sharp", "semicolon"} /\ comment \in {"unknown", l.first}

(* The style an entry is read in.  The expressions match only what has a   *)
(* hash, so none of them is tried in vain.                                 *)
Possible(style) == hash \in {"unknown", style}
StyleOf(l) ==
  IF l.sfv /\ Possible("sfv") THEN "sfv"
  ELSE IF l.hex /\ Possible("hex") THEN "hex"
  ELSE IF l.base64 /\ Possible("base64") THEN "base64" ELSE "none"

(* A line that is no entry ends the reading with a failure.                *)
FailedLine_Skipped == pc' = pc
FailedLine == pc' = "failed"

(* Where the reader is after a line; an empty one is skipped as well.      *)
NextLine(l) == at + 1

ProcessLine ==
  /\ pc = "lines"
  /\ at < Len(lines)
  /\ at' = NextLine(lines[at + 1])
  /\ LET l == lines[at + 1] IN
     CASE l = BlankLine -> UNCHANGED <<pc, comment, hash, files>>
       [] l # BlankLine /\ IsComment(l) ->
            comment' = l.first /\ UNCHANGED <<pc, hash, files>>
       [] l # BlankLine /\ ~IsComment(l) /\ StyleOf(l) = "none" ->
            FailedLine /\ UNCHANGED <<comment, hash, files>>
       [] OTHER ->
            /\ hash' = StyleOf(l)
            /\ files' = Append(files, Entry(at + 1, StyleOf(l)))
            /\ UNCHANGED <<pc, comment>>
  /\ UNCHANGED <<fileVars, heldVars, output, error>>

(* Everything is released before the names are checked.                    *)
Readable == \A i \in DOMAIN files : lines[files[i].line].readable
Unmap ==
  /\ pc = "failed" \/ (pc = "lines" /\ at >= Len(lines))
  /\ view' = FALSE /\ mapping' = FALSE
  /\ output' = IF pc = "lines" /\ Readable THEN files ELSE output
  /\ Return(FALSE)
  /\ UNCHANGED <<fileVars, parserVars>>

SumFileNext == Open \/ Map \/ View \/ Single \/ ProcessLine \/ Unmap
SumFileSpec == SumFileInit /\ [][SumFileNext]_sumVars
-----------------------------------------------------------------------------
Returned == pc = "returned"

(* "Returns error code if reading failed. If the file is not a sumfile or  *)
(* empty success is returned, but output is empty": all or nothing.  Every *)
(* line of a file that gives entries is one of them, empty, or a comment,  *)
(* in order, and all entries are read in one style.  Of the two signs of   *)
(* comments only the one used first is one: a file whose name begins with  *)
(* the other keeps its entry.                                              *)
AllOrNothing ==
  Returned /\ output # <<>> =>
    /\ ~error
    /\ \/ output = <<Entry(0, "single")>> /\ IsSingle
       \/ /\ \A n \in DOMAIN lines :
               \/ \E i \in DOMAIN output : output[i].line = n
               \/ lines[n] = BlankLine
               \/ lines[n].first = comment
          /\ \A i, j \in DOMAIN output :
               /\ output[i].style = output[j].style
               /\ i < j => output[i].line < output[j].line
          /\ \A i \in DOMAIN output : lines[output[i].line].first # comment

(* The view and the mapping are released however the function returns; the *)
(* one exception in the code is the return for a single hash.              *)
Released == Returned => (view <=> IsSingle /\ ~error) /\ (mapping <=> view)
=============================================================================

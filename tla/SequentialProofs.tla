--------------------------- MODULE SequentialProofs -------------------------
(***************************************************************************)
(* The parts that are plain sequential code: the boxes of hash contexts    *)
(* (HashBox), the reading of a checksum file (SumFile) and the writing of  *)
(* one (Export), the choice of the library of algorithms (Algorithms), and *)
(* the list of files (FileList).                                           *)
(*                                                                         *)
(* OwnedOnce is inductive together with the types: an action changes at    *)
(* most two boxes and two blocks, and what it moves leaves nothing behind. *)
(*                                                                         *)
(* Released and AllOrNothing need what is held at each step, and that the  *)
(* entries read so far stand for all lines read so far.                    *)
(*                                                                         *)
(* ChoiceListed speaks of the end; before, a file below the choice is      *)
(* listed or below a member of the list that is still to be handled.       *)
(*                                                                         *)
(* ReadsBack speaks of the end too; before, the parser holds the entries   *)
(* of the exported lines it has read.                                      *)
(***************************************************************************)
EXTENDS HashBox, Export, Algorithms, FileList, FoldProofs, SequenceTheorems
-----------------------------------------------------------------------------
(* A box with a context has an algorithm, so its block is not free.        *)
Working == \A b \in DOMAIN box : box[b].ctx # None => box[b].algorithm \in AlgorithmNames

BoxInv == BoxTypeOK /\ Working /\ OwnedOnce

LEMMA BoxInitial == HashBoxInit => BoxInv
<1>1. SUFFICES ASSUME HashBoxInit PROVE BoxInv
  OBVIOUS
<1>2. DOMAIN box = {}
  BY <1>1 DEF HashBoxInit
<1>3. QED  BY <1>1, <1>2 DEF HashBoxInit, BoxInv, BoxTypeOK, Working, OwnedOnce

(* A box that has a context is its only owner, and knows its algorithm.    *)
LEMMA OwnerKnows ==
  ASSUME BoxInv, NEW b \in DOMAIN box, box[b].ctx # None
  PROVE  /\ box[b].ctx \in Memory /\ box[b].algorithm \in AlgorithmNames
         /\ heap[box[b].ctx] = box[b].algorithm /\ heap[box[b].ctx] # None
         /\ \A c \in DOMAIN box : box[c].ctx = box[b].ctx => c = b
  BY HashBoxAssumption DEF BoxInv, BoxTypeOK, Working, OwnedOnce

LEMMA DefaultKeeps == ASSUME BoxInv, NEW b \in Boxes, Default(b) PROVE BoxInv'
  BY HashBoxAssumption
  DEF BoxInv, BoxTypeOK, Working, OwnedOnce, Default, Exists, With, Empty

LEMMA ConstructKeeps ==
  ASSUME BoxInv, NEW b \in Boxes, NEW a \in AlgorithmNames, Construct(b, a) PROVE BoxInv'
<1>1. PICK m \in Memory : /\ heap[m] = None
                          /\ box' = With(b, Allocated(a, m))
                          /\ heap' = [heap EXCEPT ![m] = a]
  BY DEF Construct
<1>2. ~Exists(b) /\ UNCHANGED <<freed, misfed>>
  BY DEF Construct
<1>3. \A c \in DOMAIN box : box[c].ctx # m
  BY <1>1, HashBoxAssumption DEF BoxInv, BoxTypeOK, Working, OwnedOnce
<1>4. BoxTypeOK' /\ Working'
  BY <1>1, <1>2, HashBoxAssumption DEF BoxInv, BoxTypeOK, Working, With, Allocated
<1>5. OwnedOnce'
  BY <1>1, <1>2, <1>3, HashBoxAssumption
  DEF BoxInv, BoxTypeOK, Working, OwnedOnce, With, Allocated, Exists, Empty
<1>6. QED  BY <1>4, <1>5 DEF BoxInv

LEMMA DestroyKeeps == ASSUME BoxInv, NEW b \in Boxes, Destroy(b) PROVE BoxInv'
<1>1. b \in DOMAIN box /\ box' = [x \in DOMAIN box \ {b} |-> box[x]] /\ Release(box[b])
  BY DEF Destroy, Exists
<1>2. CASE box[b].ctx = None
  BY <1>1, <1>2, HashBoxAssumption DEF BoxInv, BoxTypeOK, Working, OwnedOnce, Release
<1>3. CASE box[b].ctx # None
  <2>1. /\ heap' = [heap EXCEPT ![box[b].ctx] = None]
        /\ UNCHANGED <<freed, misfed>>
    BY <1>1, <1>3, OwnerKnows DEF Release, BoxInv, BoxTypeOK
  <2>2. BoxTypeOK' /\ Working'
    BY <1>1, <2>1 DEF BoxInv, BoxTypeOK, Working
  <2>3. OwnedOnce'
    BY <1>1, <1>3, <2>1, OwnerKnows, HashBoxAssumption DEF BoxInv, BoxTypeOK, Working, OwnedOnce
  <2>4. QED  BY <2>2, <2>3 DEF BoxInv
<1>4. QED  BY <1>2, <1>3

LEMMA MoveConstructKeeps ==
  ASSUME BoxInv, NEW to \in Boxes, NEW from \in Boxes, MoveConstruct(to, from) PROVE BoxInv'
<1>1. /\ to \notin DOMAIN box /\ from \in DOMAIN box /\ to # from
      /\ DOMAIN box' = DOMAIN box \cup {to}
      /\ box'[to] = box[from] /\ box'[from] = Empty
      /\ \A x \in DOMAIN box \ {from} : box'[x] = box[x]
      /\ UNCHANGED <<heap, freed, misfed>>
  BY DEF MoveConstruct, Exists, Given
<1>2. BoxTypeOK' /\ Working'
  BY <1>1 DEF BoxInv, BoxTypeOK, Working, Empty
<1>3. OwnedOnce'
  BY <1>1, HashBoxAssumption DEF BoxInv, BoxTypeOK, Working, OwnedOnce, Empty
<1>4. QED  BY <1>2, <1>3 DEF BoxInv

(* What the target held before would be lost, but it holds nothing.        *)
LEMMA MoveAssignKeeps ==
  ASSUME BoxInv, NEW to \in Boxes, NEW from \in Boxes, MoveAssign(to, from) PROVE BoxInv'
<1>1. /\ to \in DOMAIN box /\ from \in DOMAIN box /\ to # from
      /\ box[to].ctx = None
      /\ DOMAIN box' = DOMAIN box
      /\ box'[to] = box[from] /\ box'[from] = Empty
      /\ \A x \in DOMAIN box \ {to, from} : box'[x] = box[x]
      /\ UNCHANGED <<heap, freed, misfed>>
  BY DEF MoveAssign, Exists, Given
<1>2. BoxTypeOK' /\ Working'
  BY <1>1 DEF BoxInv, BoxTypeOK, Working, Empty
<1>3. OwnedOnce'
  BY <1>1, HashBoxAssumption DEF BoxInv, BoxTypeOK, Working, OwnedOnce, Empty
<1>4. QED  BY <1>2, <1>3 DEF BoxInv

LEMMA InitializeKeeps ==
  ASSUME BoxInv, NEW b \in Boxes, NEW a \in AlgorithmNames, Initialize(b, a) PROVE BoxInv'
<1>1. PICK m \in Memory :
        /\ m = box[b].ctx \/ heap[m] = None
        /\ box' = With(b, Allocated(a, m))
        /\ heap' = [x \in Memory |-> IF x = m THEN a
                                     ELSE IF x = box[b].ctx THEN None ELSE heap[x]]
        /\ freed' = (freed \/ (box[b].ctx # None /\ heap[box[b].ctx] = None))
        /\ misfed' = (misfed \/ (box[b].ctx # None /\ heap[box[b].ctx] # box[b].algorithm))
  BY DEF Initialize
<1>2. b \in DOMAIN box
  BY DEF Initialize, Exists
<1>3. /\ DOMAIN box' = DOMAIN box
      /\ box'[b] = [algorithm |-> a, ctx |-> m]
      /\ \A x \in DOMAIN box \ {b} : box'[x] = box[x]
  BY <1>1, <1>2 DEF With, Allocated
<1>4. UNCHANGED <<freed, misfed>>
  BY <1>1, <1>2, OwnerKnows DEF BoxInv, BoxTypeOK
<1>5. \A c \in DOMAIN box \ {b} : box[c].ctx # m
  BY <1>1, <1>2, HashBoxAssumption DEF BoxInv, BoxTypeOK, Working, OwnedOnce
<1>6. BoxTypeOK' /\ Working'
  BY <1>1, <1>2, <1>3, <1>4 DEF BoxInv, BoxTypeOK, Working
<1>7. OwnedOnce'
  BY <1>1, <1>2, <1>3, <1>4, <1>5, HashBoxAssumption
  DEF BoxInv, BoxTypeOK, Working, OwnedOnce, Empty
<1>8. QED  BY <1>6, <1>7 DEF BoxInv

LEMMA UseKeeps == ASSUME BoxInv, NEW b \in Boxes, Use(b) PROVE BoxInv'
<1>1. UNCHANGED <<box, heap, freed, misfed>>
  BY OwnerKnows DEF Use, Exists, BoxInv, BoxTypeOK
<1>2. QED  BY <1>1 DEF BoxInv, BoxTypeOK, Working, OwnedOnce, Empty

(* After any sequence of constructions, moves, initialisations, uses and   *)
(* destructions of boxes, every context has exactly one owner that knows   *)
(* its algorithm, and none was freed twice or given to the functions of    *)
(* another algorithm (HashBox in Hasher2.h).                               *)
THEOREM OwnedOnceAlways == HashBoxSpec => []OwnedOnce
<1>1. BoxInv /\ [HashBoxNext]_boxVars => BoxInv'
  <2>1. SUFFICES ASSUME BoxInv, [HashBoxNext]_boxVars PROVE BoxInv'
    OBVIOUS
  <2>2. CASE UNCHANGED boxVars
    BY <2>1, <2>2 DEF boxVars, BoxInv, BoxTypeOK, Working, OwnedOnce, Empty
  <2>3. ASSUME NEW b \in Boxes, Default(b) \/ Destroy(b) \/ Use(b) PROVE BoxInv'
    BY <2>1, <2>3, DefaultKeeps, DestroyKeeps, UseKeeps
  <2>4. ASSUME NEW b \in Boxes, NEW a \in AlgorithmNames, Construct(b, a) \/ Initialize(b, a)
        PROVE  BoxInv'
    BY <2>1, <2>4, ConstructKeeps, InitializeKeeps
  <2>5. ASSUME NEW to \in Boxes, NEW from \in Boxes,
               MoveConstruct(to, from) \/ MoveAssign(to, from)
        PROVE  BoxInv'
    BY <2>1, <2>5, MoveConstructKeeps, MoveAssignKeeps
  <2>6. QED  BY <2>1, <2>2, <2>3, <2>4, <2>5 DEF HashBoxNext
<1>2. BoxInv => OwnedOnce
  BY DEF BoxInv
<1>3. QED  BY <1>1, <1>2, BoxInitial, PTL DEF HashBoxSpec
-----------------------------------------------------------------------------
(* Where the parser is, and what it holds there.                           *)
Holds ==
  /\ pc \in {"open", "map", "view", "single", "lines", "failed", "returned"}
  /\ pc \in {"open", "map"} => ~mapping /\ ~view
  /\ pc = "view" => mapping = TRUE /\ ~view
  /\ pc \in {"single", "lines", "failed"} => mapping = TRUE /\ view = TRUE
  /\ pc # "returned" => ~error /\ output = <<>>
  /\ pc \in {"open", "map", "view", "single"} => at = 0 /\ files = <<>> /\ comment = "unknown"
  /\ pc \in {"lines", "failed"} => ~IsSingle

(* The line of an entry is one that was read, and no comment.              *)
EntryRead(i) ==
  /\ files[i].line \in 1..at
  /\ files[i].style = hash
  /\ \/ lines[files[i].line].first \notin {"sharp", "semicolon"}
     \/ comment # "unknown" /\ lines[files[i].line].first # comment

(* What was read so far is in the entries, in order, or stands for none.   *)
LinesRead ==
  /\ DOMAIN lines = 1..Len(lines) /\ Len(lines) \in Nat
  /\ \A n \in DOMAIN lines : lines[n].first \in {"sharp", "semicolon", "other", "blank"}
  /\ at \in 0..Len(lines)
  /\ files \in Seq([line : Nat, style : {"sfv", "hex", "base64"}])
  /\ comment \in {"unknown", "sharp", "semicolon"}
  /\ files # <<>> => hash # "unknown"
  /\ \A i \in DOMAIN files : EntryRead(i)
  /\ \A i, j \in DOMAIN files : i < j => files[i].line < files[j].line
  /\ pc \notin {"failed", "returned"} =>
       \A n \in 1..at : \/ \E i \in DOMAIN files : files[i].line = n
                       \/ lines[n] = BlankLine
                       \/ lines[n].first = comment

SumFileInv == Holds /\ LinesRead /\ Released /\ AllOrNothing

LEMMA SumFileInitial == SumFileInit => SumFileInv
<1>1. SUFFICES ASSUME SumFileInit PROVE SumFileInv
  OBVIOUS
<1>2. PICK m \in 0..MaxLines : lines \in [1..m -> Lines \cup {BlankLine}]
  BY <1>1 DEF SumFileInit, BoundedSeq, SeqOf
<1>3. DOMAIN lines = 1..Len(lines) /\ Len(lines) \in Nat
  BY <1>2, SumFileAssumption
<1>4. \A l \in Lines \cup {BlankLine} : l.first \in {"sharp", "semicolon", "other", "blank"}
  BY DEF Lines, BlankLine
<1>5. \A n \in DOMAIN lines : lines[n].first \in {"sharp", "semicolon", "other", "blank"}
  BY <1>2, <1>4
<1>6. Holds /\ LinesRead
  BY <1>1, <1>3, <1>5 DEF SumFileInit, Holds, LinesRead
<1>7. QED  BY <1>1, <1>6 DEF SumFileInit, SumFileInv, Released, AllOrNothing, Returned

(* What was opened is the same file all along.                             *)
LEMMA SameText == ASSUME UNCHANGED fileVars PROVE IsSingle' <=> IsSingle
  BY DEF IsSingle, fileVars

LEMMA LinesKept ==
  ASSUME SumFileInv, UNCHANGED <<fileVars, parserVars>>, pc' # "failed",
         pc \notin {"failed", "returned"}
  PROVE  LinesRead'
  BY DEF SumFileInv, LinesRead, EntryRead, fileVars, parserVars

(* An error leaves nothing behind, and no output.                          *)
LEMMA OpeningKeeps == ASSUME SumFileInv, Open \/ Map \/ View \/ Single PROVE SumFileInv'
<1>1. UNCHANGED <<fileVars, parserVars>> /\ pc' # "failed" /\ pc \notin {"failed", "returned"}
  BY DEF Open, Map, View, Single, Return
<1>2. LinesRead' /\ (IsSingle' <=> IsSingle)
  BY <1>1, LinesKept, SameText
<1>3. CASE Open \/ Map \/ View
  <2>1. Holds'
    BY <1>1, <1>3 DEF Open, Map, View, Return, SumFileInv, Holds, heldVars, parserVars
  <2>2. Released'
    <3>1. IsSingle => size = "small"
      BY DEF IsSingle
    <3>2. CASE Open
      BY <1>2, <3>1, <3>2 DEF Open, Return, SumFileInv, Holds, heldVars, Released, Returned
    <3>3. CASE Map \/ View
      BY <1>2, <3>3 DEF Map, View, Return, SumFileInv, Holds, heldVars, Released, Returned
    <3>4. QED  BY <1>3, <3>2, <3>3
  <2>3. output' = <<>>
    BY <1>1, <1>3 DEF Open, Map, View, SumFileInv, Holds
  <2>4. QED  BY <1>2, <2>1, <2>2, <2>3 DEF SumFileInv, AllOrNothing
<1>4. CASE Single
  <2>1. CASE IsSingle
    <3>1. Holds' /\ Released'
      BY <1>1, <1>2, <1>4, <2>1 DEF Single, Return, SumFileInv, Holds, Released, heldVars, Returned
    <3>2. AllOrNothing'
      BY <1>2, <1>4, <2>1 DEF Single, Return, AllOrNothing, Entry
    <3>3. QED  BY <1>2, <3>1, <3>2 DEF SumFileInv
  <2>2. CASE ~IsSingle
    BY <1>1, <1>2, <1>4, <2>2
    DEF Single, SumFileInv, Holds, Released, AllOrNothing, heldVars, Returned, parserVars
  <2>3. QED  BY <2>1, <2>2
<1>5. QED  BY <1>3, <1>4

LEMMA UnmapKeeps == ASSUME SumFileInv, Unmap PROVE SumFileInv'
<1>1. /\ UNCHANGED <<fileVars, parserVars>>
      /\ pc' = "returned" /\ error' = FALSE /\ view' = FALSE /\ mapping' = FALSE
      /\ output' = <<>> \/ (pc = "lines" /\ at >= Len(lines) /\ output' = files)
  BY DEF Unmap, Return, SumFileInv, Holds
<1>2. ~IsSingle /\ (IsSingle' <=> IsSingle)
  BY <1>1, SameText DEF Unmap, SumFileInv, Holds
<1>3. Holds' /\ Released'
  BY <1>1, <1>2 DEF Holds, Released, Returned
<1>4. LinesRead'
  BY <1>1 DEF SumFileInv, Holds, LinesRead, EntryRead, fileVars, parserVars
<1>5. AllOrNothing'
  <2>1. CASE output' = <<>>
    BY <2>1 DEF AllOrNothing
  <2>2. CASE pc = "lines" /\ at >= Len(lines) /\ output' = files
    <3>0. at \in 0..Len(lines) /\ Len(lines) \in Nat
      BY DEF SumFileInv, LinesRead
    <3>1. at = Len(lines) /\ UNCHANGED <<lines, comment>>
      BY <1>1, <2>2, <3>0 DEF fileVars, parserVars
    <3>2. \A n \in DOMAIN lines : \/ \E i \in DOMAIN files : files[i].line = n
                                  \/ lines[n] = BlankLine
                                  \/ lines[n].first = comment
      BY <2>2, <3>1 DEF SumFileInv, LinesRead
    <3>3. \A i, j \in DOMAIN files : /\ files[i].style = files[j].style
                                     /\ i < j => files[i].line < files[j].line
      BY DEF SumFileInv, LinesRead, EntryRead
    <3>4. \A i \in DOMAIN files : lines[files[i].line].first # comment
      BY <3>1 DEF SumFileInv, LinesRead, EntryRead
    <3>5. QED  BY <1>1, <2>2, <3>1, <3>2, <3>3, <3>4 DEF AllOrNothing
  <2>3. QED  BY <1>1, <2>1, <2>2
<1>6. QED  BY <1>3, <1>4, <1>5 DEF SumFileInv

(* The style a line is read in is that of the entries before it.           *)
LEMMA StyleKept ==
  ASSUME NEW l, StyleOf(l) # "none"
  PROVE  StyleOf(l) \in {"sfv", "hex", "base64"} /\ (hash # "unknown" => StyleOf(l) = hash)
  BY DEF StyleOf, Possible

LEMMA LineKeeps == ASSUME SumFileInv, ProcessLine PROVE SumFileInv'
<1>1. /\ pc = "lines" /\ at < Len(lines) /\ at' = at + 1
      /\ UNCHANGED <<size, lines, mapping, view, output, error>>
  BY DEF ProcessLine, fileVars, heldVars, NextLine
<1>2. LinesRead /\ Holds /\ at \in Nat /\ Len(lines) \in Nat
  BY DEF SumFileInv, LinesRead
<1>3. IsSingle' <=> IsSingle
  BY <1>1, SameText DEF fileVars
<1> DEFINE l == lines[at + 1]
<1>4. l.first \in {"sharp", "semicolon", "other", "blank"}
  BY <1>1, <1>2 DEF LinesRead
<1>5. pc' \in {"lines", "failed"}
  BY <1>1 DEF ProcessLine, FailedLine
<1>6. Holds' /\ Released' /\ AllOrNothing'
  BY <1>1, <1>2, <1>3, <1>5 DEF Holds, Released, AllOrNothing, Returned
<1>7. LinesRead'
  <2>1. CASE l = BlankLine
    <3>1. UNCHANGED <<pc, comment, hash, files>>
      BY <1>1, <2>1 DEF ProcessLine
    <3>2. QED  BY <1>1, <1>2, <2>1, <3>1 DEF LinesRead, EntryRead
  <2>2. CASE l # BlankLine /\ IsComment(l)
    <3>1. comment' = l.first /\ UNCHANGED <<pc, hash, files>>
      BY <1>1, <2>2 DEF ProcessLine
    <3>2. comment' \in {"sharp", "semicolon"} /\ comment \in {"unknown", comment'}
      BY <2>2, <3>1 DEF IsComment
    <3>3. \A i \in DOMAIN files : EntryRead(i)'
      BY <1>1, <1>2, <3>1, <3>2 DEF LinesRead, EntryRead
    <3>4. \A n \in 1..at' : \/ \E i \in DOMAIN files : files[i].line = n
                            \/ lines[n] = BlankLine
                            \/ lines[n].first = comment'
      <4>1. \A n \in 1..at : \/ \E i \in DOMAIN files : files[i].line = n
                             \/ lines[n] = BlankLine
                             \/ lines[n].first = comment
        BY <1>1, <1>2 DEF LinesRead
      <4>2. ASSUME NEW n \in 1..at, lines[n].first = comment
            PROVE  lines[n].first = comment'
        <5>1. n \in DOMAIN lines
          BY <1>1, <1>2 DEF LinesRead
        <5>2. lines[n].first # "unknown"
          BY <1>2, <5>1 DEF LinesRead
        <5>3. QED  BY <3>2, <4>2, <5>2
      <4>3. lines[at + 1].first = comment'
        BY <3>1
      <4>4. \A n \in 1..at' : n \in 1..at \/ n = at + 1
        BY <1>1, <1>2
      <4>5. QED  BY <4>1, <4>2, <4>3, <4>4
    <3>5. QED  BY <1>1, <1>2, <3>1, <3>2, <3>3, <3>4 DEF LinesRead
  <2>3. CASE l # BlankLine /\ ~IsComment(l) /\ StyleOf(l) = "none"
    <3>1. pc' = "failed" /\ UNCHANGED <<comment, hash, files>>
      BY <1>1, <2>3 DEF ProcessLine, FailedLine
    <3>2. QED  BY <1>1, <1>2, <3>1 DEF LinesRead, EntryRead
  <2>4. CASE l # BlankLine /\ ~IsComment(l) /\ StyleOf(l) # "none"
    <3>1. /\ hash' = StyleOf(l)
          /\ files' = Append(files, [line |-> at + 1, style |-> StyleOf(l)])
          /\ UNCHANGED <<pc, comment>>
      BY <1>1, <2>4 DEF ProcessLine, Entry
    <3>2. hash' \in {"sfv", "hex", "base64"} /\ (files # <<>> => hash' = hash)
      BY <1>2, <2>4, <3>1, StyleKept DEF LinesRead
    <3>3. /\ files' \in Seq([line : Nat, style : {"sfv", "hex", "base64"}])
          /\ Len(files) \in Nat /\ DOMAIN files = 1..Len(files)
          /\ DOMAIN files' = 1..Len(files) + 1
          /\ \A i \in DOMAIN files : files'[i] = files[i]
          /\ files'[Len(files) + 1].line = at + 1
          /\ files'[Len(files) + 1].style = hash'
      BY <1>2, <3>1, <3>2 DEF LinesRead
    <3>4. l.first \notin {"sharp", "semicolon"} \/ (comment # "unknown" /\ l.first # comment)
      BY <2>4 DEF IsComment
    <3>5. \A i \in DOMAIN files' : EntryRead(i)'
      BY <1>1, <1>2, <3>1, <3>2, <3>3, <3>4 DEF LinesRead, EntryRead
    <3>6. \A i, j \in DOMAIN files' : i < j => files'[i].line < files'[j].line
      <4>1. \A i \in DOMAIN files : files'[i].line = files[i].line /\ files[i].line \in 1..at
        BY <1>2, <3>3 DEF LinesRead, EntryRead
      <4>2. \A i, j \in DOMAIN files : i < j => files'[i].line < files'[j].line
        BY <1>2, <4>1 DEF LinesRead
      <4>3. SUFFICES ASSUME NEW i \in DOMAIN files', NEW j \in DOMAIN files', i < j
                     PROVE  files'[i].line < files'[j].line
        OBVIOUS
      <4>4. i \in DOMAIN files /\ (j \in DOMAIN files \/ j = Len(files) + 1)
        BY <3>3, <4>3
      <4>5. QED  BY <1>2, <3>3, <4>1, <4>2, <4>3, <4>4
    <3>7. \A n \in 1..at' : \/ \E i \in DOMAIN files' : files'[i].line = n
                            \/ lines[n] = BlankLine
                            \/ lines[n].first = comment
      <4>1. SUFFICES ASSUME NEW n \in 1..at'
                     PROVE  \/ \E i \in DOMAIN files' : files'[i].line = n
                            \/ lines[n] = BlankLine
                            \/ lines[n].first = comment
        OBVIOUS
      <4>2. n \in 1..at \/ n = at + 1
        BY <1>1, <1>2
      <4>3. CASE n = at + 1
        <5>1. Len(files) + 1 \in DOMAIN files'
          BY <3>3
        <5>2. QED  BY <3>3, <4>3, <5>1
      <4>4. CASE n \in 1..at
        <5>1. \A i \in DOMAIN files : i \in DOMAIN files' /\ files'[i].line = files[i].line
          BY <3>3
        <5>2. QED  BY <1>1, <1>2, <4>4, <5>1 DEF LinesRead
      <4>5. QED  BY <4>2, <4>3, <4>4
    <3>8. QED  BY <1>1, <1>2, <3>1, <3>2, <3>3, <3>5, <3>6, <3>7 DEF LinesRead
  <2>5. QED  BY <2>1, <2>2, <2>3, <2>4
<1>8. QED  BY <1>6, <1>7 DEF SumFileInv

LEMMA SumFileAlways == SumFileSpec => []SumFileInv
<1>1. SumFileInv /\ [SumFileNext]_sumVars => SumFileInv'
  <2>1. SUFFICES ASSUME SumFileInv, [SumFileNext]_sumVars PROVE SumFileInv'
    OBVIOUS
  <2>2. CASE UNCHANGED sumVars
    <3>1. IsSingle' <=> IsSingle
      BY <2>2, SameText DEF sumVars
    <3>2. QED
      BY <2>1, <2>2, <3>1
      DEF sumVars, fileVars, heldVars, parserVars, SumFileInv, Holds, LinesRead, EntryRead,
          Released, AllOrNothing, Returned
  <2>3. QED  BY <2>1, <2>2, OpeningKeeps, LineKeeps, UnmapKeeps DEF SumFileNext
<1>2. QED  BY <1>1, SumFileInitial, PTL DEF SumFileSpec

(* The view and the mapping are released however the function returns,     *)
(* but for the return of a single hash (TryParseSumFile).                  *)
THEOREM ReleasedAlways == SumFileSpec => []Released
<1>1. SumFileInv => Released
  BY DEF SumFileInv
<1>2. QED  BY <1>1, SumFileAlways, PTL

(* A file gives entries for all of its lines that are no comments, in      *)
(* order and in one style, or none (SumFileParser2).                       *)
THEOREM AllOrNothingAlways == SumFileSpec => []AllOrNothing
<1>1. SumFileInv => AllOrNothing
  BY DEF SumFileInv
<1>2. QED  BY <1>1, SumFileAlways, PTL

-----------------------------------------------------------------------------
(* What BLAKE3 picks is among what its files are compiled for.             *)
LEMMA FirstIsDefined ==
  ASSUME NEW lib, NEW order, DOMAIN order \subseteq 1..5
  PROVE  First(lib, order) \in Macros(lib) \cup {"portable"}
<1> DEFINE defined == {i \in DOMAIN order : order[i] \in Macros(lib)}
<1>1. CASE defined = {}
  BY <1>1 DEF First
<1>2. CASE defined # {}
  <2>1. defined \subseteq {1, 2, 3, 4, 5}
    OBVIOUS
  <2>2. PICK low \in defined : \A j \in defined : low <= j
    <3> HIDE DEF defined
    <3>1. CASE 1 \in defined
      BY <2>1, <3>1
    <3>2. CASE 1 \notin defined /\ 2 \in defined
      BY <2>1, <3>2
    <3>3. CASE defined \subseteq {3, 4, 5} /\ 3 \in defined
      BY <2>1, <3>3
    <3>4. CASE defined \subseteq {4, 5} /\ 4 \in defined
      BY <3>4
    <3>5. CASE defined \subseteq {5}
      <4>1. \A j \in defined : 5 <= j
        BY <3>5
      <4>2. 5 \in defined
        BY <1>2, <3>5
      <4>3. QED  BY <4>1, <4>2
    <3>6. QED  BY <2>1, <3>1, <3>2, <3>3, <3>4, <3>5
  <2>3. First(lib, order) = order[CHOOSE i \in defined : \A j \in defined : i <= j]
    BY <1>2 DEF First
  <2>4. (CHOOSE i \in defined : \A j \in defined : i <= j) \in defined
    BY <2>2
  <2>5. QED  BY <2>3, <2>4
<1>3. QED  BY <1>1, <1>2

LEMMA PickedIsDefined ==
  ASSUME NEW lib
  PROVE  {blake3_compress(lib), blake3_hash_many(lib)} \subseteq Macros(lib) \cup {"portable"}
  BY FirstIsDefined DEF blake3_compress, blake3_hash_many

(* A level is only given to a machine that has it, with all below it.      *)
LEMMA LevelSupported ==
  ASSUME NEW m \in Machines
  PROVE  LET lib == Library(get_cpu_level(m)) IN
         \/ lib \in {"x86", "SSE2"} /\ "SSE2" \in m.cpuid
         \/ lib = "AVX2" /\ Avx2(m)
         \/ lib = "AVX512" /\ Avx512(m)
         \/ lib = "ARM64" /\ m.arch = "ARM64"
         \/ lib = "none"
<1>1. CASE m.arch = "IX86"
  <2>1. get_cpu_level(m) = "X86"
    BY <1>1 DEF get_cpu_level
  <2>2. QED  BY <1>1, <2>1, MachinesAssumption DEF Library
<1>2. CASE m.arch = "ARM64"
  <2>1. get_cpu_level(m) = "NEON"
    BY <1>2 DEF get_cpu_level
  <2>2. QED  BY <1>2, <2>1 DEF Library
<1>3. CASE m.arch = "X64"
  <2>1. (Avx512(m) => Avx2(m)) /\ (Avx2(m) => Avx(m)) /\ (Avx(m) => Sse2(m))
    BY DEF Avx512, Avx2, Avx
  <2>2. get_cpu_level(m) = IF Avx512(m) THEN "AVX512" ELSE IF Avx2(m) THEN "AVX2"
                           ELSE IF Avx(m) THEN "AVX" ELSE IF Sse2(m) THEN "SSE2" ELSE "None"
    BY <1>3, <2>1 DEF get_cpu_level
  <2>3. Sse2(m) => "SSE2" \in m.cpuid
    BY DEF Sse2
  <2>4. QED  BY <2>1, <2>2, <2>3 DEF Library
<1>4. QED  BY <1>1, <1>2, <1>3, MachinesAssumption

(* The library that is loaded needs no registers that the system does not  *)
(* save, and, on a machine whose families of instructions are whole, has   *)
(* no instructions that are missing, those its flags allow included:       *)
(* OnlyExecutable, whatever the machine is (get_cpu_level in               *)
(* LegacyHasher.cpp, the flags of CMakeLists.txt, blake3_dispatch.c).      *)
THEOREM OnlyExecutableAlways == AlgSpec => []OnlyExecutable
<1>1. AlgInit => machine \in Machines
  BY DEF AlgInit
<1>2. machine \in Machines /\ [AlgNext]_algVars => (machine \in Machines)'
  BY DEF AlgNext, ConstructEntry, MakeContext, FinishContext, algVars
<1>3. machine \in Machines => OnlyExecutable
  <2> SUFFICES ASSUME machine \in Machines PROVE OnlyExecutable
    OBVIOUS
  <2> DEFINE lib == Library(get_cpu_level(machine))
             picked == {blake3_compress(lib), blake3_hash_many(lib)}
  <2>1. Avx512(machine) => Avx2(machine) /\ {"AVX512F", "AVX512VL"} \subseteq machine.cpuid
                           /\ "ZMM" \in machine.xcr0
    BY DEF Avx512
  <2>2. Avx2(machine) => {"AVX", "AVX2", "SSE2"} \subseteq machine.cpuid /\ "YMM" \in machine.xcr0
    BY DEF Avx2, Avx, Sse2
  <2>3. \/ lib \in {"x86", "SSE2"} /\ "SSE2" \in machine.cpuid
        \/ lib = "AVX2" /\ Avx2(machine)
        \/ lib = "AVX512" /\ Avx512(machine)
        \/ lib = "ARM64" /\ machine.arch = "ARM64"
        \/ lib = "none"
    BY LevelSupported
  <2>4. picked \subseteq Macros(lib) \cup {"portable"}
    BY PickedIsDefined
  <2> HIDE DEF lib, picked
  <2>5. Registers(lib) \subseteq machine.xcr0
    BY <2>1, <2>2, <2>3 DEF Registers
  <2>6. "NEON" \in picked => machine.arch = "ARM64"
    BY <2>3, <2>4 DEF Macros
  <2>7. ASSUME FamiliesWhole(machine), NEW f \in picked PROVE WrittenIn(f) \subseteq machine.cpuid
    <3>1. f \in Macros(lib) \cup {"portable"}
      BY <2>4
    <3>2. QED  BY <2>1, <2>2, <2>3, <2>7, <3>1 DEF Macros, WrittenIn, FamiliesWhole
  <2>8. ASSUME FamiliesWhole(machine) PROVE Allowed(lib) \subseteq machine.cpuid
    BY <2>1, <2>2, <2>3, <2>8 DEF Allowed, FamiliesWhole, Avx2Family, Avx512Family
  <2>9. QED  BY <2>5, <2>6, <2>7, <2>8 DEF OnlyExecutable, lib, picked
<1>4. QED  BY <1>1, <1>2, <1>3, PTL DEF AlgSpec

-----------------------------------------------------------------------------
(* The greatest of some numbers.                                           *)
LEMMA MaxIs ==
  ASSUME NEW n \in Nat, NEW S \in SUBSET (0..n), S # {}
  PROVE  Max(S) \in S /\ \A m \in S : Max(S) >= m
<1> DEFINE Good == {k \in Nat : \A T \in SUBSET (0..k) : T # {} => \E x \in T : \A y \in T : x >= y}
<1>1. 0 \in Good
  <2>1. ASSUME NEW T \in SUBSET (0..0), T # {} PROVE \E x \in T : \A y \in T : x >= y
    <3>1. \A y \in T : y = 0
      BY <2>1
    <3>2. PICK x \in T : TRUE
      BY <2>1
    <3>3. QED  BY <3>1, <3>2
  <2>2. QED  BY <2>1
<1>2. ASSUME NEW k \in Nat, k \in Good PROVE k + 1 \in Good
  <2>1. SUFFICES ASSUME NEW T \in SUBSET (0..(k + 1)), T # {} PROVE \E x \in T : \A y \in T : x >= y
    OBVIOUS
  <2>2. CASE k + 1 \in T
    BY <2>2
  <2>3. CASE k + 1 \notin T
    <3>1. T \in SUBSET (0..k)
      BY <2>1, <2>3
    <3>2. QED  BY <1>2, <2>1, <3>1
  <2>4. QED  BY <2>2, <2>3
<1> HIDE DEF Good
<1>3. n \in Good
  BY <1>1, <1>2, NumberInduction
<1>4. \E x \in S : \A y \in S : x >= y
  BY <1>3 DEF Good
<1>5. QED  BY <1>4 DEF Max

-----------------------------------------------------------------------------
(* Paths.  The part of a path that is un-shortened is every beginning that *)
(* exists, because what is above a file or folder exists, too.             *)
Words == DOMAIN LongName
There(path, i) == Long(SubSeq(path, 1, i)) \in Existing

LEMMA LongIs ==
  ASSUME NEW path \in Seq(Words)
  PROVE  /\ Long(path) \in Seq(Words) /\ Len(Long(path)) = Len(path)
         /\ \A i \in 1..Len(path) : Long(path)[i] = LongName[path[i]]
<1>1. Long(path) \in [1..Len(path) -> Words]
  BY FileSystemAssumption DEF Long, Words
<1>2. QED  BY <1>1 DEF Long

LEMMA Beginning ==
  ASSUME NEW S, NEW path \in Seq(S), NEW m \in 0..Len(path)
  PROVE  /\ SubSeq(path, 1, m) \in Seq(S) /\ Len(SubSeq(path, 1, m)) = m
         /\ \A i \in 1..m : SubSeq(path, 1, m)[i] = path[i]
         /\ \A i \in 0..m : SubSeq(SubSeq(path, 1, m), 1, i) = SubSeq(path, 1, i)
<1>1. /\ SubSeq(path, 1, m) \in Seq(S) /\ Len(SubSeq(path, 1, m)) = m
      /\ \A i \in 1..m : SubSeq(path, 1, m)[i] = path[i]
  OBVIOUS
<1>2. ASSUME NEW i \in 0..m PROVE SubSeq(SubSeq(path, 1, m), 1, i) = SubSeq(path, 1, i)
  <2> DEFINE p == SubSeq(path, 1, m)
             q == SubSeq(p, 1, i)
             r == SubSeq(path, 1, i)
  <2>1. p \in Seq(S) /\ Len(p) = m /\ \A j \in 1..m : p[j] = path[j]
    BY <1>1
  <2> HIDE DEF p
  <2>2. q \in Seq(S) /\ Len(q) = i /\ \A j \in 1..i : q[j] = p[j]
    BY <2>1
  <2>3. r \in Seq(S) /\ Len(r) = i /\ \A j \in 1..i : r[j] = path[j]
    OBVIOUS
  <2> HIDE DEF q, r
  <2>4. \A j \in 1..i : q[j] = r[j]
    BY <2>1, <2>2, <2>3
  <2>5. q = r
    BY <2>2, <2>3, <2>4, SeqEqual
  <2>6. QED  BY <2>5 DEF p, q, r
<1>3. QED  BY <1>1, <1>2

(* The long form of a beginning is the beginning of the long form.         *)
LEMMA LongBeginning ==
  ASSUME NEW path \in Seq(Words), NEW m \in 0..Len(path)
  PROVE  Long(SubSeq(path, 1, m)) = SubSeq(Long(path), 1, m)
<1> DEFINE a == Long(SubSeq(path, 1, m))
           b == SubSeq(Long(path), 1, m)
<1>1. a \in Seq(Words) /\ Len(a) = m /\ \A i \in 1..m : a[i] = LongName[path[i]]
  <2> DEFINE s == SubSeq(path, 1, m)
  <2>1. s \in Seq(Words) /\ Len(s) = m /\ \A i \in 1..m : s[i] = path[i]
    BY Beginning
  <2> HIDE DEF s
  <2>2. Long(s) \in Seq(Words) /\ Len(Long(s)) = m /\ \A i \in 1..m : Long(s)[i] = LongName[s[i]]
    BY <2>1, LongIs
  <2>3. QED  BY <2>1, <2>2 DEF s
<1>2. b \in Seq(Words) /\ Len(b) = m /\ \A i \in 1..m : b[i] = LongName[path[i]]
  BY Beginning, LongIs
<1>3. QED  BY <1>1, <1>2, SeqEqual

LEMMA ExistingPath ==
  ASSUME NEW p \in Existing
  PROVE  /\ p \in Seq(Words) /\ Len(p) \in Nat \ {0} /\ Long(p) = p
         /\ \A n \in 1..(Len(p) - 1) : SubSeq(p, 1, n) \in Dirs
<1>1. /\ p \in Seq(Words) /\ p # <<>> /\ \A i \in 1..Len(p) : LongName[p[i]] = p[i]
      /\ \A n \in 1..(Len(p) - 1) : SubSeq(p, 1, n) \in Dirs
  BY FileSystemAssumption DEF Existing, Words
<1>2. Long(p) = p
  BY <1>1, LongIs, SeqEqual
<1>3. QED  BY <1>1, <1>2

LEMMA ExistsAbove ==
  ASSUME NEW path \in Seq(Words), NEW k \in 1..Len(path), There(path, k), NEW j \in 1..k
  PROVE  There(path, j)
<1> DEFINE p == Long(SubSeq(path, 1, k))
<1>1. p \in Existing /\ p = SubSeq(Long(path), 1, k)
  BY LongBeginning DEF There
<1>2. Len(p) = k /\ SubSeq(p, 1, j) = Long(SubSeq(path, 1, j))
  <2>1. Long(path) \in Seq(Words) /\ Len(Long(path)) = Len(path)
    BY LongIs
  <2>2. Len(p) = k /\ SubSeq(p, 1, j) = SubSeq(Long(path), 1, j)
    BY <1>1, <2>1, Beginning
  <2>3. QED  BY <2>2, LongBeginning
<1>3. CASE j = k
  BY <1>3
<1>4. CASE j < k
  <2>1. SubSeq(p, 1, j) \in Dirs
    BY <1>1, <1>2, <1>4, ExistingPath
  <2>2. QED  BY <1>2, <2>1 DEF There, Existing
<1>5. QED  BY <1>3, <1>4

LEMMA NormalizedAt ==
  ASSUME NEW path \in Seq(Words)
  PROVE  /\ NormalizePath(path) \in Seq(Words) /\ Len(NormalizePath(path)) = Len(path)
         /\ \A i \in 1..Len(path) :
              NormalizePath(path)[i] = IF There(path, i) THEN LongName[path[i]] ELSE path[i]
<1> DEFINE K == {k \in 0..Len(path) : k = 0 \/ Long(SubSeq(path, 1, k)) \in Existing}
           n == Max(K)
           a == Long(SubSeq(path, 1, n))
           b == SubSeq(path, n + 1, Len(path))
<1>1. n \in K /\ \A k \in K : n >= k
  <2>1. K \in SUBSET (0..Len(path)) /\ 0 \in K /\ Len(path) \in Nat
    OBVIOUS
  <2> HIDE DEF K
  <2>2. QED  BY <2>1, MaxIs
<1>2. NormalizePath(path) = a \o b
  BY DEF NormalizePath
<1> HIDE DEF n
<1>3. ASSUME NEW i \in 1..Len(path) PROVE i <= n <=> There(path, i)
  <2>1. There(path, i) => i \in K
    BY DEF There
  <2>2. n # 0 => There(path, n)
    BY <1>1 DEF There
  <2> HIDE DEF K
  <2>3. i <= n => n \in 1..Len(path) /\ i \in 1..n
    BY <1>1 DEF K
  <2>4. QED  BY <1>1, <2>1, <2>2, <2>3, ExistsAbove
<1>4. n \in 0..Len(path)
  BY <1>1
<1>5. a \in Seq(Words) /\ Len(a) = n /\ \A i \in 1..n : a[i] = LongName[path[i]]
  <2> DEFINE s == SubSeq(path, 1, n)
  <2>1. s \in Seq(Words) /\ Len(s) = n /\ \A i \in 1..n : s[i] = path[i]
    BY <1>4, Beginning
  <2> HIDE DEF s
  <2>2. Long(s) \in Seq(Words) /\ Len(Long(s)) = n /\ \A i \in 1..n : Long(s)[i] = LongName[s[i]]
    BY <2>1, LongIs
  <2>3. QED  BY <2>1, <2>2 DEF s
<1>6. b \in Seq(Words) /\ Len(b) = Len(path) - n /\ \A i \in 1..(Len(path) - n) : b[i] = path[n + i]
  BY <1>4
<1> HIDE DEF a, b
<1>7. /\ a \o b \in Seq(Words) /\ Len(a \o b) = Len(path)
      /\ \A i \in 1..Len(path) : (a \o b)[i] = IF i <= n THEN a[i] ELSE b[i - n]
  BY <1>4, <1>5, <1>6
<1>8. ASSUME NEW i \in 1..Len(path), i > n PROVE b[i - n] = path[i]
  BY <1>4, <1>6, <1>8
<1>9. QED  BY <1>2, <1>3, <1>4, <1>5, <1>7, <1>8

LEMMA NormalizedBeginning ==
  ASSUME NEW path \in Seq(Words), NEW m \in 0..Len(path)
  PROVE  NormalizePath(SubSeq(path, 1, m)) = SubSeq(NormalizePath(path), 1, m)
<1> DEFINE p == SubSeq(path, 1, m)
           a == NormalizePath(p)
           b == SubSeq(NormalizePath(path), 1, m)
<1>1. p \in Seq(Words) /\ Len(p) = m /\ \A i \in 1..m : p[i] = path[i] /\ SubSeq(p, 1, i) = SubSeq(path, 1, i)
  BY Beginning
<1>2. \A i \in 1..m : There(p, i) <=> There(path, i)
  BY <1>1 DEF There
<1> HIDE DEF p
<1>3. /\ a \in Seq(Words) /\ Len(a) = m
      /\ \A i \in 1..m : a[i] = IF There(p, i) THEN LongName[p[i]] ELSE p[i]
  BY <1>1, NormalizedAt
<1>4. /\ b \in Seq(Words) /\ Len(b) = m
      /\ \A i \in 1..m : b[i] = IF There(path, i) THEN LongName[path[i]] ELSE path[i]
  BY Beginning, NormalizedAt
<1>5. \A i \in 1..m : a[i] = b[i]
  BY <1>1, <1>2, <1>3, <1>4
<1>6. QED  BY <1>3, <1>4, <1>5, SeqEqual DEF p

LEMMA NormalizedKnown == ASSUME NEW p \in Existing PROVE NormalizePath(p) = p
<1>1. p \in Seq(Words) /\ Long(p) = p
  BY ExistingPath
<1>2. \A i \in 1..Len(p) : LongName[p[i]] = p[i]
  BY <1>1, LongIs
<1>3. QED  BY <1>1, <1>2, NormalizedAt, SeqEqual

-----------------------------------------------------------------------------
(* InSomeOrder is recursive over the subsets of a finite set, as the sums  *)
(* of FoldProofs are.  It gives each member.                               *)
OrderStep(g, s) == IF s = {} THEN <<>> ELSE Append(g[s \ {Chosen(s)}], Chosen(s))
PartialOrders(S) == CHOOSE g : g = [s \in SUBSET S |-> OrderStep(g, s)]

LEMMA OrderIs == \A S : InSomeOrder(S) = PartialOrders(S)[S]
  BY DEF InSomeOrder, FoldSet, MapThenFoldSet, PartialOrders, OrderStep, Chosen

LEMMA OrdersExist ==
  ASSUME NEW S, IsFiniteSet(S)
  PROVE  \A s \in SUBSET S : PartialOrders(S)[s] = OrderStep(PartialOrders(S), s)
<1> DEFINE Right(n, g) == /\ g = [s \in SUBSET S |-> g[s]]
                          /\ \A s \in SUBSET S : Cardinality(s) <= n => g[s] = OrderStep(g, s)
           Good == {n \in Nat : \E g : Right(n, g)}
<1>1. 0 \in Good
  <2> DEFINE g == [s \in SUBSET S |-> <<>>]
  <2>1. ASSUME NEW s \in SUBSET S, Cardinality(s) <= 0 PROVE s = {}
    BY <2>1, FS_Subset, FS_EmptySet, FS_CardinalityType
  <2>2. Right(0, g)
    BY <2>1 DEF OrderStep
  <2>3. QED  BY <2>2
<1>2. ASSUME NEW n \in Nat, n \in Good PROVE n + 1 \in Good
  <2>1. PICK g : Right(n, g)
    BY <1>2
  <2> DEFINE h == [s \in SUBSET S |-> OrderStep(g, s)]
  <2>2. ASSUME NEW s \in SUBSET S, Cardinality(s) <= n + 1 PROVE h[s] = OrderStep(h, s)
    <3>1. CASE s = {}
      BY <3>1 DEF OrderStep
    <3>2. CASE s # {}
      <4> DEFINE r == s \ {Chosen(s)}
      <4>1. r \in SUBSET S /\ Cardinality(r) <= n
        BY <2>2, <3>2, Smaller
      <4>2. h[r] = g[r]
        BY <2>1, <4>1
      <4>3. QED  BY <3>2, <4>2 DEF OrderStep
    <3>3. QED  BY <3>1, <3>2
  <2>3. h = [s \in SUBSET S |-> h[s]]
    OBVIOUS
  <2> HIDE DEF h
  <2>4. Right(n + 1, h)
    BY <2>2, <2>3
  <2> HIDE DEF Right
  <2>5. QED  BY <2>4
<1>3. Cardinality(S) \in Good
  <2> HIDE DEF Good
  <2>1. Nat \subseteq Good
    BY <1>1, <1>2, NumberInduction
  <2>2. QED  BY <2>1, FS_CardinalityType
<1>4. PICK g : Right(Cardinality(S), g)
  BY <1>3
<1>5. \A s \in SUBSET S : Cardinality(s) <= Cardinality(S)
  BY FS_Subset
<1>6. \A s \in SUBSET S : g[s] = OrderStep(g, s)
  BY <1>4, <1>5
<1>7. g = [s \in SUBSET S |-> OrderStep(g, s)]
  BY <1>4, <1>6
<1> DEFINE h == PartialOrders(S)
<1>8. h = [s \in SUBSET S |-> OrderStep(h, s)]
  BY <1>7 DEF PartialOrders
<1> HIDE DEF h
<1>9. \A s \in SUBSET S : h[s] = OrderStep(h, s)
  BY <1>8
<1>10. QED  BY <1>9 DEF h

LEMMA OrderMeans ==
  ASSUME NEW S, IsFiniteSet(S)
  PROVE  InSomeOrder(S) \in Seq(S) /\ \A x \in S : \E i \in 1..Len(InSomeOrder(S)) : InSomeOrder(S)[i] = x
<1> DEFINE g == PartialOrders(S)
           Listed(s) == g[s] \in Seq(S) /\ \A x \in s : \E i \in 1..Len(g[s]) : g[s][i] = x
           Good == {n \in Nat : \A s \in SUBSET S : Cardinality(s) <= n => Listed(s)}
<1>1. \A s \in SUBSET S : g[s] = OrderStep(g, s)
  BY OrdersExist
<1> HIDE DEF g
<1>2. Listed({})
  <2>1. {} \in SUBSET S
    OBVIOUS
  <2>2. g[{}] = <<>>
    BY <1>1, <2>1 DEF OrderStep
  <2>3. QED  BY <2>2
<1>3. 0 \in Good
  <2>1. ASSUME NEW s \in SUBSET S, Cardinality(s) <= 0 PROVE s = {}
    BY <2>1, FS_Subset, FS_EmptySet, FS_CardinalityType
  <2>2. QED  BY <1>2, <2>1
<1>4. ASSUME NEW n \in Nat, n \in Good PROVE n + 1 \in Good
  <2>1. SUFFICES ASSUME NEW s \in SUBSET S, Cardinality(s) <= n + 1 PROVE Listed(s)
    OBVIOUS
  <2>2. CASE s = {}
    BY <1>2, <2>2
  <2>3. CASE s # {}
    <3> DEFINE r == s \ {Chosen(s)}
    <3>1. r \in SUBSET S /\ Cardinality(r) <= n /\ Chosen(s) \in S
      BY <2>1, <2>3, Smaller
    <3>2. Listed(r)
      BY <1>4, <3>1
    <3>3. g[s] = Append(g[r], Chosen(s))
      BY <1>1, <2>3 DEF OrderStep
    <3>4. /\ g[s] \in Seq(S) /\ Len(g[s]) = Len(g[r]) + 1 /\ g[s][Len(g[r]) + 1] = Chosen(s)
          /\ \A i \in 1..Len(g[r]) : g[s][i] = g[r][i]
      BY <3>1, <3>2, <3>3
    <3>5. ASSUME NEW x \in s PROVE \E i \in 1..Len(g[s]) : g[s][i] = x
      <4>1. CASE x = Chosen(s)
        BY <3>2, <3>4, <4>1
      <4>2. CASE x # Chosen(s)
        <5>1. PICK i \in 1..Len(g[r]) : g[r][i] = x
          BY <3>2, <4>2
        <5> HIDE DEF r
        <5>2. Len(g[r]) \in Nat
          BY <3>2
        <5>3. i \in 1..Len(g[s])
          BY <3>4, <5>1, <5>2
        <5>4. g[s][i] = g[r][i]
          BY <3>4, <5>1
        <5>5. QED  BY <5>1, <5>3, <5>4
      <4>3. QED  BY <4>1, <4>2
    <3>6. QED  BY <3>4, <3>5
  <2>4. QED  BY <2>2, <2>3
<1>5. Listed(S)
  <2> HIDE DEF Good
  <2>1. Cardinality(S) \in Good
    BY <1>3, <1>4, NumberInduction, FS_CardinalityType
  <2> USE DEF Good
  <2> HIDE DEF Listed
  <2>2. QED  BY <2>1
<1>6. QED  BY <1>5, OrderIs DEF g

-----------------------------------------------------------------------------
(* The file list.  What is listed, and still to be handled, is below the   *)
(* choice; and every file below the choice has been listed, or lies below  *)
(* a member of the list that is still to be handled.                       *)
SumLines == UNION {ToSet(Sums[p]) : p \in Plain}

FilesTypeOK ==
  /\ chosen \in ChosenLists
  /\ list \in Seq(Seq(Words))
  /\ handled \in 0..Len(list)
  /\ entries \in Seq(SumLines)
  /\ "hash_sumfile_too" \in DOMAIN settings

Stages ==
  /\ stage = "sumfile" => /\ list = chosen /\ handled = 0 /\ entries = <<>>
                          /\ DOMAIN listed = {} /\ type = NotSumfile
  /\ entries # <<>> => type # NotSumfile
  /\ stage = "done" => handled = Len(list)

FromChoice(path) == \E top \in ChosenPaths : Below(top, path)

WithinChoice ==
  /\ \A i \in 1..Len(list) : FromChoice(NormalizePath(list[i]))
  /\ \A p \in DOMAIN listed : p \in Seq(Words) /\ (FromChoice(p) \/ type # NotSumfile)

Based ==
  stage # "sumfile" =>
    /\ base \in Seq(Words)
    /\ \A top \in ChosenPaths : IsPrefix(base, top)
    /\ \A p \in DOMAIN listed : /\ DOMAIN listed[p] = {"relative", "expected"}
                                /\ listed[p].relative = Relative(p)

Accounted(top, p) ==
  \/ p \in DOMAIN listed
  \/ \E n \in Len(top)..Len(p) : SubSeq(p, 1, n) \in Dirs \cap DOMAIN listed
  \/ type # NotSumfile /\ ~settings.hash_sumfile_too /\ p \in ChosenPaths

Waiting(top, p, s, h) ==
  \E i \in (h + 1)..Len(s), n \in Len(top)..Len(p) : NormalizePath(s[i]) = SubSeq(p, 1, n)

Reached ==
  \A top \in ChosenPaths, p \in Plain :
    Below(top, p) => Accounted(top, p) \/ Waiting(top, p, list, handled)

FilesInv == FilesTypeOK /\ Stages /\ WithinChoice /\ Based /\ Reached

LEMMA PrefixIs ==
  ASSUME NEW S, NEW s \in Seq(S), NEW t \in Seq(S)
  PROVE  /\ IsPrefix(s, t) <=> Len(s) <= Len(t) /\ SubSeq(t, 1, Len(s)) = s
         /\ IsPrefix(s, t) <=> Len(s) <= Len(t) /\ \A i \in 1..Len(s) : t[i] = s[i]
<1>1. SubSeq(s, 1, Len(s)) = s
  BY SubSeqFull
<1>2. IsPrefix(s, t) <=> Len(s) <= Len(t) /\ SubSeq(t, 1, Len(s)) = s
  BY <1>1 DEF IsPrefix
<1>3. ASSUME Len(s) <= Len(t) PROVE SubSeq(t, 1, Len(s)) = s <=> \A i \in 1..Len(s) : t[i] = s[i]
  <2> DEFINE q == SubSeq(t, 1, Len(s))
  <2>1. q \in Seq(S) /\ Len(q) = Len(s) /\ \A i \in 1..Len(s) : q[i] = t[i]
    BY <1>3
  <2> HIDE DEF q
  <2>2. (\A i \in 1..Len(s) : q[i] = s[i]) => q = s
    BY <2>1, SeqEqual
  <2>3. QED  BY <2>1, <2>2 DEF q
<1>4. QED  BY <1>2, <1>3

LEMMA PrefixOfPrefix ==
  ASSUME NEW S, NEW s \in Seq(S), NEW t \in Seq(S), NEW u \in Seq(S), IsPrefix(s, t), IsPrefix(t, u)
  PROVE  IsPrefix(s, u)
<1>1. Len(s) <= Len(t) /\ \A i \in 1..Len(s) : t[i] = s[i]
  BY PrefixIs
<1>2. Len(t) <= Len(u) /\ \A i \in 1..Len(t) : u[i] = t[i]
  BY PrefixIs
<1>3. Len(s) <= Len(u) /\ \A i \in 1..Len(s) : u[i] = s[i]
  BY <1>1, <1>2
<1>4. QED  BY <1>3, PrefixIs

(* What was chosen.                                                        *)
LEMMA ChoiceIs ==
  ASSUME chosen \in ChosenLists
  PROVE  /\ chosen \in Seq(Seq(Words)) /\ Len(chosen) \in Nat \ {0}
         /\ \A i \in 1..Len(chosen) : /\ chosen[i] \in Seq(Words) /\ Len(chosen[i]) \in Nat \ {0}
                                      /\ NormalizePath(chosen[i]) \in ChosenPaths
         /\ \A top \in ChosenPaths : /\ top \in Seq(Words) /\ Len(top) \in Nat \ {0}
                                     /\ \E i \in 1..Len(chosen) : top = NormalizePath(chosen[i])
<1>1. chosen \in Seq(Seq(Words) \ {<<>>}) /\ chosen # <<>>
  BY FileListAssumption DEF Words
<1>2. \A i \in 1..Len(chosen) : chosen[i] \in Seq(Words) /\ chosen[i] # <<>>
  BY <1>1
<1>3. chosen \in Seq(Seq(Words)) /\ Len(chosen) \in Nat \ {0} /\ DOMAIN chosen = 1..Len(chosen)
  BY <1>1
<1>4. \A i \in 1..Len(chosen) : Len(chosen[i]) \in Nat \ {0}
  BY <1>2
<1>5. ChosenPaths = {NormalizePath(chosen[i]) : i \in 1..Len(chosen)}
  BY <1>3 DEF ChosenPaths, ToSet
<1>6. \A i \in 1..Len(chosen) : /\ NormalizePath(chosen[i]) \in Seq(Words)
                                /\ Len(NormalizePath(chosen[i])) = Len(chosen[i])
  BY <1>2, NormalizedAt
<1>7. QED  BY <1>2, <1>3, <1>4, <1>5, <1>6

LEMMA BelowItself == ASSUME NEW top \in Seq(Words) PROVE Below(top, top)
  BY PrefixIs DEF Below

(* A child of a folder below the choice.                                   *)
LEMMA ChildBelow ==
  ASSUME NEW dir \in Dirs, NEW top \in Seq(Words), Below(top, dir), NEW q \in Children(dir)
  PROVE  Below(top, q) /\ q \in Seq(Words) /\ NormalizePath(q) = q
<1>1. /\ q \in Existing /\ q \notin Links /\ Len(q) = Len(dir) + 1 /\ IsPrefix(dir, q)
      /\ dir \in Existing
  BY DEF Children, Existing
<1>2. q \in Seq(Words) /\ dir \in Seq(Words)
  BY <1>1, ExistingPath
<1>3. IsPrefix(top, dir) /\ \A n \in (Len(top) + 1)..Len(dir) : SubSeq(dir, 1, n) \notin Links
  BY DEF Below
<1>4. IsPrefix(top, q)
  BY <1>1, <1>2, <1>3, PrefixOfPrefix
<1>5. ASSUME NEW n \in (Len(top) + 1)..Len(q) PROVE SubSeq(q, 1, n) \notin Links
  <2>1. CASE n = Len(q)
    BY <1>1, <1>2, <2>1, SubSeqFull
  <2>2. CASE n # Len(q)
    <3>1. n \in (Len(top) + 1)..Len(dir) /\ n \in 0..Len(dir) /\ Len(dir) \in 0..Len(q)
      BY <1>1, <1>2, <2>2
    <3>2. dir = SubSeq(q, 1, Len(dir))
      BY <1>1, <1>2, PrefixIs
    <3>3. SubSeq(dir, 1, n) = SubSeq(q, 1, n)
      BY <1>2, <3>1, <3>2, Beginning
    <3>4. QED  BY <1>3, <3>1, <3>3
  <2>3. QED  BY <2>1, <2>2
<1>6. QED  BY <1>1, <1>2, <1>4, <1>5, NormalizedKnown DEF Below

(* The way down from the choice to a file goes over children.              *)
LEMMA WayDown ==
  ASSUME NEW top \in Seq(Words), Len(top) > 0, NEW p \in Plain, Below(top, p),
         NEW n \in Len(top)..Len(p), n < Len(p)
  PROVE  /\ SubSeq(p, 1, n) \in Dirs
         /\ SubSeq(p, 1, n + 1) \in Children(SubSeq(p, 1, n))
         /\ NormalizePath(SubSeq(p, 1, n + 1)) = SubSeq(p, 1, n + 1)
<1> DEFINE dir == SubSeq(p, 1, n)
           q == SubSeq(p, 1, n + 1)
<1>1. p \in Seq(Words) /\ p \in Existing /\ \A m \in 1..(Len(p) - 1) : SubSeq(p, 1, m) \in Dirs
  BY ExistingPath DEF Existing
<1>2. n \in 1..(Len(p) - 1) /\ n \in 0..Len(p) /\ n + 1 \in 0..Len(p) /\ n \in 0..(n + 1)
  BY <1>1
<1>3. dir \in Dirs
  BY <1>1, <1>2
<1>4. q \in Existing
  <2>1. CASE n + 1 = Len(p)
    BY <1>1, <2>1, SubSeqFull
  <2>2. CASE n + 1 # Len(p)
    <3>1. n + 1 \in 1..(Len(p) - 1)
      BY <1>2, <2>2
    <3>2. QED  BY <1>1, <3>1 DEF Existing
  <2>3. QED  BY <2>1, <2>2
<1>5. q \notin Links
  BY <1>1, <1>2 DEF Below
<1>6. dir \in Seq(Words) /\ q \in Seq(Words) /\ Len(dir) = n /\ Len(q) = n + 1 /\ SubSeq(q, 1, n) = dir
  BY <1>1, <1>2, Beginning
<1> HIDE DEF dir, q
<1>7. IsPrefix(dir, q)
  BY <1>2, <1>6, PrefixIs
<1>8. q \in Children(dir) /\ NormalizePath(q) = q
  BY <1>4, <1>5, <1>6, <1>7, NormalizedKnown DEF Children
<1>9. QED  BY <1>3, <1>8 DEF dir, q

LEMMA FilesInitial == FileListInit => FilesInv
<1> SUFFICES ASSUME FileListInit PROVE FilesInv
  OBVIOUS
<1>1. /\ chosen \in Seq(Seq(Words)) /\ Len(chosen) \in Nat \ {0}
      /\ \A i \in 1..Len(chosen) : /\ chosen[i] \in Seq(Words)
                                   /\ NormalizePath(chosen[i]) \in ChosenPaths
  BY ChoiceIs DEF FileListInit
<1>2. FilesTypeOK
  BY <1>1 DEF FileListInit, FilesTypeOK
<1>3. Stages /\ Based
  BY DEF FileListInit, Stages, Based
<1>4. WithinChoice
  <2>1. \A i \in 1..Len(chosen) : FromChoice(NormalizePath(chosen[i]))
    BY <1>1, NormalizedAt, BelowItself DEF FromChoice
  <2>2. QED  BY <2>1 DEF FileListInit, WithinChoice
<1>5. Reached
  <2>1. SUFFICES ASSUME NEW top \in ChosenPaths, NEW p \in Plain, Below(top, p)
                 PROVE  Waiting(top, p, list, handled)
    BY DEF Reached
  <2>2. /\ top \in Seq(Words) /\ Len(top) \in Nat
        /\ \E i \in 1..Len(chosen) : top = NormalizePath(chosen[i])
    BY ChoiceIs DEF FileListInit
  <2>3. PICK i \in 1..Len(chosen) : top = NormalizePath(chosen[i])
    BY <2>2
  <2>4. p \in Seq(Words)
    BY ExistingPath DEF Existing
  <2>5. Len(top) \in Len(top)..Len(p) /\ SubSeq(p, 1, Len(top)) = top
    BY <2>1, <2>2, <2>4, PrefixIs DEF Below
  <2>6. QED  BY <2>3, <2>5 DEF FileListInit, Waiting
<1>6. QED  BY <1>2, <1>3, <1>4, <1>5 DEF FilesInv

(* The base path is a beginning of what was chosen.                        *)
LEMMA BaseIs ==
  ASSUME FilesInv, ReadSumfile
  PROVE  base' \in Seq(Words) /\ \A top \in ChosenPaths : IsPrefix(base', top)
<1> DEFINE common == IF Len(chosen) = 1 THEN Parent(chosen[1]) ELSE CommonFolder(chosen)
<1>1. base' = NormalizePath(common)
  BY DEF FilesInv, Stages, ReadSumfile, NormalizeBase
<1>2. /\ chosen \in Seq(Seq(Words)) /\ Len(chosen) \in Nat \ {0}
      /\ \A i \in 1..Len(chosen) : chosen[i] \in Seq(Words) /\ Len(chosen[i]) \in Nat \ {0}
      /\ \A top \in ChosenPaths : /\ top \in Seq(Words)
                                  /\ \E i \in 1..Len(chosen) : top = NormalizePath(chosen[i])
  BY ChoiceIs DEF FilesInv, FilesTypeOK
<1>3. \E n \in 0..Len(chosen[1]) :
        /\ common = SubSeq(chosen[1], 1, n)
        /\ \A i \in 1..Len(chosen) : n <= Len(chosen[i]) /\ SubSeq(chosen[i], 1, n) = common
  <2>1. CASE Len(chosen) = 1
    <3>1. common = SubSeq(chosen[1], 1, Len(chosen[1]) - 1)
      BY <2>1 DEF Parent, Front
    <3>2. Len(chosen[1]) - 1 \in 0..Len(chosen[1])
      BY <1>2
    <3>3. \A i \in 1..Len(chosen) : i = 1
      BY <2>1
    <3> HIDE DEF common
    <3> DEFINE n == Len(chosen[1]) - 1
    <3>4. n <= Len(chosen[1])
      BY <1>2
    <3>5. n \in 0..Len(chosen[1]) /\ common = SubSeq(chosen[1], 1, n)
      BY <3>1, <3>2
    <3> HIDE DEF n
    <3>6. QED  BY <3>3, <3>4, <3>5
  <2>2. CASE Len(chosen) # 1
    <3> DEFINE shared(n) == \A p \in ToSet(chosen) :
                              n < Len(p) /\ SubSeq(p, 1, n) = SubSeq(chosen[1], 1, n)
               M == {n \in 0..Len(chosen[1]) : n = 0 \/ shared(n)}
               m == Max(M)
    <3>1. m \in M
      <4>1. M \in SUBSET (0..Len(chosen[1])) /\ 0 \in M /\ Len(chosen[1]) \in Nat
        BY <1>2
      <4> HIDE DEF M
      <4>2. QED  BY <4>1, MaxIs
    <3>2. common = SubSeq(chosen[1], 1, m)
      BY <2>2 DEF CommonFolder
    <3> HIDE DEF common, m
    <3>3. ASSUME NEW i \in 1..Len(chosen)
          PROVE  m <= Len(chosen[i]) /\ SubSeq(chosen[i], 1, m) = SubSeq(chosen[1], 1, m)
      <4>1. CASE m = 0
        <5>1. SubSeq(chosen[i], 1, 0) = <<>> /\ SubSeq(chosen[1], 1, 0) = <<>>
          BY <1>2, SubSeqEmpty
        <5>2. QED  BY <1>2, <4>1, <5>1
      <4>2. CASE shared(m)
        <5>1. chosen[i] \in ToSet(chosen)
          BY <1>2 DEF ToSet
        <5>2. m < Len(chosen[i]) /\ SubSeq(chosen[i], 1, m) = SubSeq(chosen[1], 1, m)
          BY <4>2, <5>1
        <5>3. QED  BY <1>2, <3>1, <5>2
      <4>3. QED  BY <3>1, <4>1, <4>2
    <3>4. m \in 0..Len(chosen[1])
      BY <3>1
    <3> HIDE DEF M
    <3>5. QED  BY <3>2, <3>3, <3>4
  <2>3. QED  BY <2>1, <2>2
<1> HIDE DEF common
<1>4. PICK n \in 0..Len(chosen[1]) :
        /\ common = SubSeq(chosen[1], 1, n)
        /\ \A i \in 1..Len(chosen) : n <= Len(chosen[i]) /\ SubSeq(chosen[i], 1, n) = common
  BY <1>3
<1>5. common \in Seq(Words) /\ Len(common) = n
  BY <1>2, <1>4, Beginning
<1>6. base' \in Seq(Words) /\ Len(base') = n
  BY <1>1, <1>5, NormalizedAt
<1>7. ASSUME NEW top \in ChosenPaths PROVE IsPrefix(base', top)
  <2>1. PICK i \in 1..Len(chosen) : top = NormalizePath(chosen[i])
    BY <1>2
  <2>2. chosen[i] \in Seq(Words) /\ n \in 0..Len(chosen[i]) /\ common = SubSeq(chosen[i], 1, n)
    <3>1. n <= Len(chosen[i]) /\ SubSeq(chosen[i], 1, n) = common
      BY <1>4
    <3>2. n \in Nat /\ chosen[i] \in Seq(Words) /\ Len(chosen[i]) \in Nat
      BY <1>2, <1>4
    <3>3. QED  BY <3>1, <3>2
  <2>3. base' = SubSeq(top, 1, n)
    BY <1>1, <2>1, <2>2, NormalizedBeginning
  <2>4. top \in Seq(Words) /\ n <= Len(top)
    BY <2>1, <2>2, NormalizedAt
  <2>5. QED  BY <1>6, <2>3, <2>4, PrefixIs
<1>8. QED  BY <1>6, <1>7

LEMMA ReadSumfileKeeps == ASSUME FilesInv, ReadSumfile PROVE FilesInv'
<1>1. /\ list = chosen /\ handled = 0 /\ entries = <<>> /\ DOMAIN listed = {} /\ type = NotSumfile
      /\ chosen' = chosen /\ handled' = 0 /\ listed' = listed /\ settings' = settings
      /\ stage = "sumfile" /\ stage' = "entries"
  BY DEF FilesInv, Stages, ReadSumfile
<1>2. /\ chosen \in Seq(Seq(Words)) /\ Len(chosen) \in Nat \ {0}
      /\ \A i \in 1..Len(chosen) : chosen[i] \in Seq(Words)
  BY ChoiceIs DEF FilesInv, FilesTypeOK
<1>3. \/ UNCHANGED <<entries, type, list>>
      \/ /\ Len(chosen) = 1
         /\ NormalizePath(chosen[1]) \in Plain
         /\ entries' = Sums[NormalizePath(chosen[1])]
         /\ type' = TypeOf[NormalizePath(chosen[1])]
         /\ list' = IF settings.hash_sumfile_too THEN list ELSE <<>>
  BY <1>1 DEF ReadSumfile
<1>0. ASSUME NEW p \in Plain PROVE TypeOf[p] # NotSumfile /\ Sums[p] \in Seq(SumLines)
  <2>1. TypeOf[p] # NotSumfile
    BY FileListAssumption DEF NotSumfile, UnknownSumfile
  <2>2. Sums[p] \in Seq(ToSet(Sums[p])) /\ ToSet(Sums[p]) \subseteq SumLines
    BY FileListAssumption DEF SumLines
  <2>3. QED  BY <2>1, <2>2, SeqMonotonic
<1>4. (list' = list \/ list' = <<>>) /\ (list' # list => type' # NotSumfile)
  BY <1>0, <1>1, <1>3
<1>5. \/ entries' = entries /\ type' = type
      \/ type' # NotSumfile /\ entries' \in Seq(SumLines)
  <2>1. CASE UNCHANGED <<entries, type, list>>
    BY <2>1
  <2>2. CASE ~UNCHANGED <<entries, type, list>>
    <3>1. /\ NormalizePath(chosen[1]) \in Plain
          /\ entries' = Sums[NormalizePath(chosen[1])]
          /\ type' = TypeOf[NormalizePath(chosen[1])]
      BY <1>3, <2>2
    <3>2. QED  BY <1>0, <3>1
  <2>3. QED  BY <2>1, <2>2
<1>6. ChosenPaths' = ChosenPaths
  BY <1>1 DEF ChosenPaths
<1>7. FilesTypeOK'
  <2>1. list' \in Seq(Seq(Words)) /\ handled' \in 0..Len(list')
    <3>1. CASE list' = list
      BY <1>1, <1>2, <3>1
    <3>2. CASE list' = <<>>
      <4>1. handled' \in 0..Len(<<>>) /\ <<>> \in Seq(Seq(Words))
        BY <1>1
      <4>2. QED  BY <3>2, <4>1
    <3>3. QED  BY <1>4, <3>1, <3>2
  <2>2. entries' \in Seq(SumLines)
    BY <1>1, <1>5 DEF FilesInv, FilesTypeOK
  <2>3. QED  BY <1>1, <2>1, <2>2 DEF FilesInv, FilesTypeOK
<1>8. Stages'
  BY <1>1, <1>5 DEF Stages
<1>9. WithinChoice'
  BY <1>1, <1>4, <1>6 DEF FilesInv, WithinChoice, FromChoice
<1>10. Based'
  BY <1>1, <1>6, BaseIs DEF Based
<1>11. Reached'
  <2>1. SUFFICES ASSUME NEW top \in ChosenPaths, NEW p \in Plain, Below(top, p)
                 PROVE  (Accounted(top, p) \/ Waiting(top, p, list, handled))'
    BY <1>6 DEF Reached
  <2>2. Waiting(top, p, list, handled)
    <3>1. ~Accounted(top, p)
      BY <1>1 DEF Accounted
    <3>2. QED  BY <2>1, <3>1 DEF FilesInv, Reached
  <2>3. CASE list' = list
    BY <1>1, <2>2, <2>3 DEF Waiting
  <2>4. CASE list' # list
    <3>1. /\ Len(chosen) = 1 /\ NormalizePath(chosen[1]) \in Plain /\ list' = <<>>
          /\ ~settings.hash_sumfile_too /\ type' # NotSumfile
      BY <1>3, <1>4, <2>4
    <3>2. top = NormalizePath(chosen[1])
      BY <3>1, ChoiceIs DEF FilesInv, FilesTypeOK
    <3>3. top \in Plain /\ top \in Existing /\ p \in Existing
      BY <3>1, <3>2 DEF Existing
    <3>4. top \in Seq(Words) /\ p \in Seq(Words) /\ Len(top) \in Nat \ {0} /\ Len(p) \in Nat \ {0}
      BY <3>3, ExistingPath
    <3>5. Len(top) <= Len(p) /\ SubSeq(p, 1, Len(top)) = top
      BY <2>1, <3>4, PrefixIs DEF Below
    <3>6. Len(top) = Len(p)
      <4>1. CASE Len(top) < Len(p)
        <5>1. SubSeq(p, 1, Len(top)) \in Dirs
          BY <3>3, <3>4, <4>1, ExistingPath
        <5>2. QED  BY <3>3, <3>5, <5>1, FileListAssumption
      <4>2. QED  BY <3>4, <3>5, <4>1
    <3>7. p = top
      BY <3>4, <3>5, <3>6, SubSeqFull
    <3>8. QED  BY <1>1, <1>6, <3>1, <3>7 DEF Accounted
  <2>5. QED  BY <2>3, <2>4
<1>12. QED  BY <1>7, <1>8, <1>9, <1>10, <1>11 DEF FilesInv

(* A file is put into the list with its relative path.                     *)
LEMMA PutMeans ==
  ASSUME NEW path, NEW expected,
         listed' = Put(path, [relative |-> Relative(path), expected |-> expected])
  PROVE  /\ DOMAIN listed' = DOMAIN listed \cup {path}
         /\ \A p \in DOMAIN listed \ {path} : listed'[p] = listed[p]
         /\ DOMAIN listed'[path] = {"relative", "expected"}
         /\ listed'[path].relative = Relative(path)
  BY DEF Put

LEMMA AddFileMeans ==
  ASSUME NEW path, AddFile(path)
  PROVE  /\ DOMAIN listed' = DOMAIN listed \cup {path}
         /\ \A p \in DOMAIN listed : listed'[p] = listed[p]
         /\ path \notin DOMAIN listed =>
              DOMAIN listed'[path] = {"relative", "expected"} /\ listed'[path].relative = Relative(path)
<1>1. CASE path \in DOMAIN listed
  BY <1>1 DEF AddFile
<1>2. CASE path \notin DOMAIN listed
  BY <1>2, PutMeans DEF AddFile
<1>3. QED  BY <1>1, <1>2

(* What a step that adds at most one file leaves true of those listed.     *)
LEMMA ListedKeeps ==
  ASSUME FilesInv, NEW path \in Seq(Words), UNCHANGED <<base, chosen>>, stage # "sumfile",
         type' = type, FromChoice(path) \/ type # NotSumfile,
         DOMAIN listed' = DOMAIN listed \cup {path},
         \A p \in DOMAIN listed' : \/ /\ p = path /\ DOMAIN listed'[p] = {"relative", "expected"}
                                      /\ listed'[p].relative = Relative(p)
                                   \/ /\ p \in DOMAIN listed /\ DOMAIN listed'[p] = DOMAIN listed[p]
                                      /\ listed'[p].relative = listed[p].relative
  PROVE  /\ Based'
         /\ \A p \in DOMAIN listed' : p \in Seq(Words) /\ (FromChoice(p)' \/ type' # NotSumfile)
<1>1. ChosenPaths' = ChosenPaths
  BY DEF ChosenPaths
<1>2. \A p : Relative(p)' = Relative(p) /\ FromChoice(p)' = FromChoice(p)
  BY <1>1 DEF Relative, FromChoice
<1>3. /\ base \in Seq(Words) /\ \A top \in ChosenPaths : IsPrefix(base, top)
      /\ \A p \in DOMAIN listed : /\ DOMAIN listed[p] = {"relative", "expected"}
                                  /\ listed[p].relative = Relative(p)
  BY DEF FilesInv, Based
<1>4. \A p \in DOMAIN listed' : /\ DOMAIN listed'[p] = {"relative", "expected"}
                                /\ listed'[p].relative = Relative(p)
  BY <1>3
<1>5. Based'
  BY <1>1, <1>2, <1>3, <1>4 DEF Based
<1>6. \A p \in DOMAIN listed : p \in Seq(Words) /\ (FromChoice(p) \/ type # NotSumfile)
  BY DEF FilesInv, WithinChoice
<1>7. QED  BY <1>2, <1>5, <1>6

LEMMA AddEntryKeeps == ASSUME FilesInv, AddEntry PROVE FilesInv'
<1> DEFINE line == Head(entries)
           path == EntryKey(line.name)
<1>1. /\ stage = "entries" /\ entries # <<>> /\ entries' = Tail(entries)
      /\ UNCHANGED <<list, handled, base, type, settings, stage, chosen>>
      /\ listed' = IF line.name = <<>> THEN listed
                   ELSE IF path \in DOMAIN listed
                   THEN [listed EXCEPT ![path].expected = Append(@, line.hash)]
                   ELSE Put(path, [relative |-> Relative(path), expected |-> <<line.hash>>])
  BY DEF AddEntry
<1>2. line \in SumLines /\ entries' \in Seq(SumLines)
  BY <1>1 DEF FilesInv, FilesTypeOK
<1>3. path \in Seq(Words)
  <2>1. line.name \in Seq(Words)
    BY <1>2, FileListAssumption DEF SumLines, Words
  <2>2. chosen[1] \in Seq(Words) /\ Len(chosen[1]) \in Nat \ {0}
    BY ChoiceIs DEF FilesInv, FilesTypeOK
  <2>3. Parent(chosen[1]) \in Seq(Words)
    BY <2>2 DEF Parent, Front
  <2>4. Parent(chosen[1]) \o line.name \in Seq(Words)
    BY <2>1, <2>3
  <2>5. QED  BY <2>4, NormalizedAt DEF EntryKey
<1>4. type # NotSumfile
  BY <1>1 DEF FilesInv, Stages
<1> HIDE DEF line, path
<1>5. Based' /\ \A p \in DOMAIN listed' : p \in Seq(Words) /\ (FromChoice(p)' \/ type' # NotSumfile)
  <2>1. CASE listed' = listed
    <3>1. ChosenPaths' = ChosenPaths
      BY <1>1 DEF ChosenPaths
    <3>2. \A p : Relative(p)' = Relative(p)
      BY <1>1 DEF Relative
    <3>3. QED  BY <1>1, <1>4, <2>1, <3>1, <3>2 DEF FilesInv, Based, WithinChoice
  <2>2. CASE path \notin DOMAIN listed /\ listed' # listed
    <3>1. listed' = Put(path, [relative |-> Relative(path), expected |-> <<line.hash>>])
      BY <1>1, <2>2
    <3>2. QED  BY <1>1, <1>3, <1>4, <3>1, PutMeans, ListedKeeps
  <2>3. CASE path \in DOMAIN listed /\ listed' # listed
    <3>1. listed' = [listed EXCEPT ![path].expected = Append(@, line.hash)]
      BY <1>1, <2>3
    <3>2. DOMAIN listed[path] = {"relative", "expected"}
      BY <1>1, <2>3 DEF FilesInv, Based
    <3>3. DOMAIN listed' = DOMAIN listed \cup {path}
      BY <2>3, <3>1
    <3>4. listed'[path] = [listed[path] EXCEPT !.expected = Append(@, line.hash)]
      BY <2>3, <3>1
    <3>5. DOMAIN listed'[path] = DOMAIN listed[path] /\ listed'[path].relative = listed[path].relative
      BY <3>2, <3>4
    <3>6. \A p \in DOMAIN listed \ {path} : listed'[p] = listed[p]
      BY <3>1
    <3>7. QED  BY <1>1, <1>3, <1>4, <2>3, <3>3, <3>5, <3>6, ListedKeeps
  <2>4. QED  BY <2>1, <2>2, <2>3
<1>6. ChosenPaths' = ChosenPaths /\ DOMAIN listed \subseteq DOMAIN listed'
  BY <1>1 DEF ChosenPaths, Put
<1>7. FilesTypeOK' /\ Stages'
  BY <1>1, <1>2, <1>4 DEF FilesInv, FilesTypeOK, Stages
<1>8. WithinChoice'
  BY <1>1, <1>5, <1>6 DEF FilesInv, WithinChoice, FromChoice
<1>9. Reached'
  BY <1>1, <1>6 DEF FilesInv, Reached, Accounted, Waiting
<1>10. QED  BY <1>5, <1>7, <1>8, <1>9 DEF FilesInv

(* A path is handled: it is listed as a file, or some or all of its        *)
(* children come to the end of the list.                                   *)
LEMMA HandleFileKeeps == ASSUME FilesInv, HandleFile PROVE FilesInv'
<1> DEFINE path == NormalizePath(list[handled + 1])
<1>1. /\ stage = "list" /\ handled < Len(list) /\ path \notin Dirs /\ AddFile(path)
      /\ handled' = handled + 1
      /\ UNCHANGED <<list, entries, base, type, settings, stage, chosen>>
  BY DEF HandleFile
<1>2. handled \in Nat /\ handled + 1 \in 1..Len(list) /\ list \in Seq(Seq(Words))
  BY <1>1 DEF FilesInv, FilesTypeOK
<1>3. path \in Seq(Words) /\ FromChoice(path)
  BY <1>2, NormalizedAt DEF FilesInv, WithinChoice
<1> HIDE DEF path
<1>4. Based' /\ \A p \in DOMAIN listed' : p \in Seq(Words) /\ (FromChoice(p)' \/ type' # NotSumfile)
  BY <1>1, <1>3, AddFileMeans, ListedKeeps
<1>5. ChosenPaths' = ChosenPaths /\ DOMAIN listed' = DOMAIN listed \cup {path}
  BY <1>1, AddFileMeans DEF ChosenPaths
<1>6. FilesTypeOK' /\ Stages'
  BY <1>1, <1>2 DEF FilesInv, FilesTypeOK, Stages
<1>7. WithinChoice'
  BY <1>1, <1>4, <1>5 DEF FilesInv, WithinChoice, FromChoice
<1>8. Reached'
  <2>1. SUFFICES ASSUME NEW top \in ChosenPaths, NEW p \in Plain, Below(top, p)
                 PROVE  (Accounted(top, p) \/ Waiting(top, p, list, handled))'
    BY <1>5 DEF Reached
  <2>2. CASE Accounted(top, p)
    BY <1>1, <1>5, <2>2 DEF Accounted
  <2>3. CASE Waiting(top, p, list, handled)
    <3>1. PICK i \in (handled + 1)..Len(list), n \in Len(top)..Len(p) :
                 NormalizePath(list[i]) = SubSeq(p, 1, n)
      BY <2>3 DEF Waiting
    <3>2. CASE i = handled + 1
      <4>1. path = SubSeq(p, 1, n)
        BY <3>1, <3>2 DEF path
      <4>2. n = Len(p)
        <5>1. top \in Seq(Words) /\ Len(top) > 0
          BY ChoiceIs DEF FilesInv, FilesTypeOK
        <5>2. p \in Seq(Words)
          BY ExistingPath DEF Existing
        <5>3. n < Len(p) => SubSeq(p, 1, n) \in Dirs
          BY <2>1, <5>1, WayDown
        <5>4. QED  BY <1>1, <4>1, <5>1, <5>2, <5>3
      <4>3. path = p
        BY <4>1, <4>2, ExistingPath, SubSeqFull DEF Existing
      <4>4. QED  BY <1>5, <4>3 DEF Accounted
    <3>3. CASE i # handled + 1
      <4>1. i \in (handled' + 1)..Len(list')
        BY <1>1, <1>2, <3>1, <3>3
      <4>2. QED  BY <1>1, <3>1, <4>1 DEF Waiting
    <3>4. QED  BY <3>2, <3>3
  <2>4. QED  BY <2>1, <2>2, <2>3 DEF FilesInv, Reached
<1>9. QED  BY <1>4, <1>6, <1>7, <1>8 DEF FilesInv

(* The list with children of its next member behind it.                    *)
LEMMA Growing ==
  ASSUME FilesInv, handled < Len(list),
         NEW dir, dir = NormalizePath(list[handled + 1]), dir \in Dirs,
         NEW some \in SUBSET Children(dir), list' = list \o InSomeOrder(some),
         handled' = handled + 1, UNCHANGED chosen
  PROVE  /\ list' \in Seq(Seq(Words)) /\ handled' \in 0..Len(list')
         /\ \A i \in 1..Len(list) : list'[i] = list[i]
         /\ Len(list) <= Len(list')
         /\ \A i \in 1..Len(list') : FromChoice(NormalizePath(list'[i]))
         /\ \A q \in some : \E i \in (handled' + 1)..Len(list') : list'[i] = q
<1> DEFINE more == InSomeOrder(some)
<1>1. /\ handled \in Nat /\ handled + 1 \in 1..Len(list) /\ list \in Seq(Seq(Words))
      /\ Len(list) \in Nat /\ \A i \in 1..Len(list) : FromChoice(NormalizePath(list[i]))
  BY DEF FilesInv, FilesTypeOK, WithinChoice
<1>2. IsFiniteSet(some)
  <2>1. IsFiniteSet(Existing)
    BY FileListAssumption, FS_Union DEF Existing
  <2>2. some \subseteq Existing
    BY DEF Children
  <2>3. QED  BY <2>1, <2>2, FS_Subset
<1>3. more \in Seq(some) /\ \A q \in some : \E i \in 1..Len(more) : more[i] = q
  BY <1>2, OrderMeans
<1> HIDE DEF more
<1>4. PICK top \in ChosenPaths : Below(top, dir)
  BY <1>1 DEF FromChoice
<1>5. \A q \in some : Below(top, q) /\ q \in Seq(Words) /\ NormalizePath(q) = q
  BY <1>4, ChildBelow, ChoiceIs DEF FilesInv, FilesTypeOK
<1>6. more \in Seq(Seq(Words)) /\ Len(more) \in Nat /\ \A i \in 1..Len(more) : more[i] \in some
  BY <1>3, <1>5, SeqMonotonic
<1>7. list' = list \o more
  BY DEF more
<1>8. /\ list' \in Seq(Seq(Words)) /\ Len(list') = Len(list) + Len(more)
      /\ \A i \in 1..Len(list) : list'[i] = list[i]
      /\ \A i \in 1..Len(more) : list'[Len(list) + i] = more[i]
  <2>1. /\ list \o more \in Seq(Seq(Words)) /\ Len(list \o more) = Len(list) + Len(more)
        /\ \A i \in 1..(Len(list) + Len(more)) :
             (list \o more)[i] = IF i <= Len(list) THEN list[i] ELSE more[i - Len(list)]
    BY <1>1, <1>6, ConcatProperties
  <2>2. QED  BY <1>1, <1>6, <1>7, <2>1
<1>9. ASSUME NEW i \in 1..Len(list') PROVE FromChoice(NormalizePath(list'[i]))
  <2>1. i \in 1..(Len(list) + Len(more))
    BY <1>8
  <2>2. CASE i <= Len(list)
    <3>1. i \in 1..Len(list)
      BY <1>1, <2>1, <2>2
    <3>2. QED  BY <1>1, <1>8, <3>1
  <2>3. CASE i > Len(list)
    <3>1. i - Len(list) \in 1..Len(more) /\ i = Len(list) + (i - Len(list))
      BY <1>1, <1>6, <2>1, <2>3
    <3>2. list'[i] \in some
      BY <1>6, <1>8, <3>1
    <3>3. QED  BY <1>4, <1>5, <3>2 DEF FromChoice
  <2>4. i <= Len(list) \/ i > Len(list)
    BY <1>1, <2>1
  <2>5. QED  BY <2>2, <2>3, <2>4
<1>10. ASSUME NEW q \in some PROVE \E i \in (handled' + 1)..Len(list') : list'[i] = q
  <2>1. PICK j \in 1..Len(more) : more[j] = q
    BY <1>3
  <2>2. Len(list) + j \in (handled + 2)..(Len(list) + Len(more))
    BY <1>1, <1>6, <2>1
  <2>3. handled' + 1 = handled + 2
    BY <1>1
  <2>4. Len(list) + j \in (handled' + 1)..Len(list')
    BY <1>8, <2>2, <2>3
  <2>5. list'[Len(list) + j] = q
    BY <1>8, <2>1
  <2>6. QED  BY <2>4, <2>5
<1>11. handled' \in 0..Len(list') /\ Len(list) <= Len(list')
  <2> DEFINE m == Len(more)
             n == Len(list)
  <2>1. m \in Nat /\ n \in Nat /\ handled \in Nat /\ handled + 1 <= n
    BY <1>1, <1>6
  <2> HIDE DEF m, n
  <2>2. handled + 1 \in 0..(n + m) /\ n <= n + m
    BY <2>1
  <2>3. QED  BY <1>8, <2>2 DEF m, n
<1>12. QED  BY <1>8, <1>9, <1>10, <1>11

(* Who was waiting still is, unless it was below the member handled.       *)
LEMMA WaitingGrows ==
  ASSUME FilesInv, NEW top, NEW p, handled < Len(list), handled' = handled + 1,
         Waiting(top, p, list, handled),
         Len(list) <= Len(list'), Len(list') \in Nat, \A i \in 1..Len(list) : list'[i] = list[i]
  PROVE  \/ Waiting(top, p, list', handled')
         \/ \E n \in Len(top)..Len(p) : NormalizePath(list[handled + 1]) = SubSeq(p, 1, n)
<1>1. PICK i \in (handled + 1)..Len(list), n \in Len(top)..Len(p) :
        NormalizePath(list[i]) = SubSeq(p, 1, n)
  BY DEF Waiting
<1>2. CASE i = handled + 1
  BY <1>1, <1>2
<1>3. CASE i # handled + 1
  <2>1. handled \in Nat /\ Len(list) \in Nat
    BY DEF FilesInv, FilesTypeOK
  <2>2. i \in 1..Len(list) /\ i \in (handled' + 1)..Len(list')
    BY <1>1, <1>3, <2>1
  <2>3. QED  BY <1>1, <2>2 DEF Waiting
<1>4. QED  BY <1>2, <1>3

LEMMA ListFolderKeeps == ASSUME FilesInv, ListFolder PROVE FilesInv'
<1> DEFINE dir == NormalizePath(list[handled + 1])
<1>1. /\ stage = "list" /\ handled < Len(list) /\ dir \in Dirs
      /\ list' = list \o InSomeOrder(Children(dir)) /\ handled' = handled + 1
      /\ UNCHANGED <<entries, listed, base, type, settings, stage, chosen>>
  BY DEF ListFolder
<1>2. /\ list' \in Seq(Seq(Words)) /\ handled' \in 0..Len(list')
      /\ \A i \in 1..Len(list) : list'[i] = list[i]
      /\ Len(list) <= Len(list')
      /\ \A i \in 1..Len(list') : FromChoice(NormalizePath(list'[i]))
      /\ \A q \in Children(dir) : \E i \in (handled' + 1)..Len(list') : list'[i] = q
  BY <1>1, Growing
<1> HIDE DEF dir
<1>3. ChosenPaths' = ChosenPaths
  BY <1>1 DEF ChosenPaths
<1>4. \A p : Relative(p)' = Relative(p)
  BY <1>1 DEF Relative
<1>5. FilesTypeOK' /\ Stages'
  BY <1>1, <1>2 DEF FilesInv, FilesTypeOK, Stages
<1>6. WithinChoice'
  BY <1>1, <1>2, <1>3 DEF FilesInv, WithinChoice, FromChoice
<1>7. Based'
  BY <1>1, <1>3, <1>4 DEF FilesInv, Based
<1>8. Reached'
  <2>1. SUFFICES ASSUME NEW top \in ChosenPaths, NEW p \in Plain, Below(top, p)
                 PROVE  (Accounted(top, p) \/ Waiting(top, p, list, handled))'
    BY <1>3 DEF Reached
  <2>2. CASE Accounted(top, p)
    BY <1>1, <1>3, <2>2 DEF Accounted
  <2>3. CASE Waiting(top, p, list', handled')
    BY <2>3 DEF Waiting
  <2>4. CASE \E n \in Len(top)..Len(p) : dir = SubSeq(p, 1, n)
    <3>1. PICK n \in Len(top)..Len(p) : dir = SubSeq(p, 1, n)
      BY <2>4
    <3>2. /\ top \in Seq(Words) /\ Len(top) \in Nat \ {0} /\ p \in Seq(Words) /\ Len(p) \in Nat
          /\ SubSeq(p, 1, Len(p)) = p
      <4>1. top \in Seq(Words) /\ Len(top) \in Nat \ {0}
        BY ChoiceIs DEF FilesInv, FilesTypeOK
      <4>2. p \in Seq(Words)
        BY ExistingPath DEF Existing
      <4>3. QED  BY <4>1, <4>2, SubSeqFull
    <3>3. n < Len(p)
      <4>1. dir # p
        BY <1>1, FileListAssumption
      <4> DEFINE last == Len(p)
      <4>2. SubSeq(p, 1, last) = p /\ last \in Nat /\ Len(top) \in Nat /\ n \in Len(top)..last
        BY <3>1, <3>2
      <4> HIDE DEF last
      <4>3. n # last
        BY <3>1, <4>1, <4>2
      <4>4. n < last
        BY <4>2, <4>3
      <4>5. QED  BY <4>4 DEF last
    <3>4. /\ SubSeq(p, 1, n + 1) \in Children(dir)
          /\ NormalizePath(SubSeq(p, 1, n + 1)) = SubSeq(p, 1, n + 1)
      BY <2>1, <3>1, <3>2, <3>3, WayDown
    <3>5. PICK i \in (handled' + 1)..Len(list') : list'[i] = SubSeq(p, 1, n + 1)
      BY <1>2, <3>4
    <3>6. n + 1 \in Len(top)..Len(p)
      BY <3>1, <3>2, <3>3
    <3>7. Waiting(top, p, list', handled')
      BY <3>4, <3>5, <3>6 DEF Waiting
    <3>8. QED  BY <3>7 DEF Waiting
  <2>5. QED
    <3>1. Len(list') \in Nat
      BY <1>2
    <3>2. Accounted(top, p) \/ Waiting(top, p, list, handled)
      BY <2>1 DEF FilesInv, Reached
    <3>3. QED  BY <1>1, <1>2, <2>2, <2>3, <2>4, <3>1, <3>2, WaitingGrows DEF dir
<1>9. QED  BY <1>5, <1>6, <1>7, <1>8 DEF FilesInv

LEMMA ListFolderFailsKeeps == ASSUME FilesInv, ListFolderFails PROVE FilesInv'
<1> DEFINE dir == NormalizePath(list[handled + 1])
<1>1. /\ stage = "list" /\ handled < Len(list) /\ dir \in Dirs /\ AddFile(dir)
      /\ handled' = handled + 1
      /\ UNCHANGED <<entries, base, type, settings, stage, chosen>>
  BY DEF ListFolderFails
<1>2. PICK some \in SUBSET Children(dir) : list' = list \o InSomeOrder(some)
  BY DEF ListFolderFails
<1>3. /\ list' \in Seq(Seq(Words)) /\ handled' \in 0..Len(list')
      /\ \A i \in 1..Len(list) : list'[i] = list[i]
      /\ Len(list) <= Len(list')
      /\ \A i \in 1..Len(list') : FromChoice(NormalizePath(list'[i]))
  BY <1>1, <1>2, Growing
<1>4. dir \in Seq(Words) /\ FromChoice(dir)
  <2>1. handled + 1 \in 1..Len(list) /\ list \in Seq(Seq(Words))
    BY <1>1 DEF FilesInv, FilesTypeOK
  <2>2. QED  BY <2>1, NormalizedAt DEF FilesInv, WithinChoice
<1> HIDE DEF dir
<1>5. Based' /\ \A p \in DOMAIN listed' : p \in Seq(Words) /\ (FromChoice(p)' \/ type' # NotSumfile)
  BY <1>1, <1>4, AddFileMeans, ListedKeeps
<1>6. ChosenPaths' = ChosenPaths /\ DOMAIN listed' = DOMAIN listed \cup {dir}
  BY <1>1, AddFileMeans DEF ChosenPaths
<1>7. FilesTypeOK' /\ Stages'
  BY <1>1, <1>3 DEF FilesInv, FilesTypeOK, Stages
<1>8. WithinChoice'
  BY <1>3, <1>5, <1>6 DEF WithinChoice, FromChoice
<1>9. Reached'
  <2>1. SUFFICES ASSUME NEW top \in ChosenPaths, NEW p \in Plain, Below(top, p)
                 PROVE  (Accounted(top, p) \/ Waiting(top, p, list, handled))'
    BY <1>6 DEF Reached
  <2>2. CASE Accounted(top, p)
    BY <1>1, <1>6, <2>2 DEF Accounted
  <2>3. CASE Waiting(top, p, list', handled')
    BY <2>3 DEF Waiting
  <2>4. CASE \E n \in Len(top)..Len(p) : dir = SubSeq(p, 1, n)
    BY <1>1, <1>6, <2>4 DEF Accounted
  <2>5. QED
    <3>1. Len(list') \in Nat
      BY <1>3
    <3>2. Accounted(top, p) \/ Waiting(top, p, list, handled)
      BY <2>1 DEF FilesInv, Reached
    <3>3. QED  BY <1>1, <1>3, <2>2, <2>3, <2>4, <3>1, <3>2, WaitingGrows DEF dir
<1>10. QED  BY <1>5, <1>7, <1>8, <1>9 DEF FilesInv

LEMMA FilesStep == ASSUME FilesInv, [FileListNext]_listVars PROVE FilesInv'
<1>1. CASE EntriesAdded \/ ListDone \/ UNCHANGED listVars
  <2>1. /\ UNCHANGED <<list, handled, entries, listed, base, type, chosen>>
        /\ stage' = "done" => stage = "done" \/ handled = Len(list)
        /\ stage' # "sumfile" => stage # "sumfile"
        /\ stage' = "sumfile" => stage = "sumfile"
    BY <1>1 DEF EntriesAdded, ListDone, listVars
  <2>2. settings' = settings \/ settings' = [settings EXCEPT !.algorithms = @ \cup {type}]
    BY <1>1 DEF EntriesAdded, ListDone, listVars
  <2>3. /\ "hash_sumfile_too" \in DOMAIN settings'
        /\ settings'.hash_sumfile_too = settings.hash_sumfile_too
    BY <2>2 DEF FilesInv, FilesTypeOK
  <2>4. ChosenPaths' = ChosenPaths
    BY <2>1 DEF ChosenPaths
  <2>5. \A p : Relative(p)' = Relative(p) /\ FromChoice(p)' = FromChoice(p)
    BY <2>1, <2>4 DEF Relative, FromChoice
  <2>6. FilesTypeOK' /\ Stages'
    BY <2>1, <2>3 DEF FilesInv, FilesTypeOK, Stages
  <2>7. WithinChoice' /\ Based'
    BY <2>1, <2>4, <2>5 DEF FilesInv, WithinChoice, Based
  <2>8. Reached'
    BY <2>1, <2>3, <2>4 DEF FilesInv, Reached, Accounted, Waiting
  <2>9. QED  BY <2>6, <2>7, <2>8 DEF FilesInv
<1>2. QED  BY <1>1, ReadSumfileKeeps, AddEntryKeeps, HandleFileKeeps, ListFolderKeeps,
              ListFolderFailsKeeps DEF FileListNext

(* What a file is called in the list, below the base path, is its path.    *)
LEMMA RelativeToBase ==
  ASSUME FilesInv, stage # "sumfile", NEW p \in DOMAIN listed, NEW top \in ChosenPaths, Below(top, p)
  PROVE  base \o listed[p].relative = p
<1>1. /\ base \in Seq(Words) /\ p \in Seq(Words) /\ top \in Seq(Words) /\ IsPrefix(base, top)
      /\ listed[p].relative = Relative(p)
  BY ChoiceIs DEF FilesInv, FilesTypeOK, Based, WithinChoice
<1>2. IsPrefix(base, p)
  BY <1>1, PrefixOfPrefix DEF Below
<1>3. listed[p].relative = SubSeq(p, Len(base) + 1, Len(p))
  BY <1>1, <1>2 DEF Relative
<1>4. base = SubSeq(p, 1, Len(base)) /\ Len(base) <= Len(p)
  BY <1>1, <1>2, PrefixIs
<1>5. SubSeq(p, 1, Len(base)) \o SubSeq(p, Len(base) + 1, Len(p)) = SubSeq(p, 1, Len(p))
  <2>1. Len(base) \in 0..Len(p) /\ Len(p) \in Nat
    BY <1>1, <1>4
  <2>2. /\ 1 \in 1..(Len(p) + 1) /\ Len(base) \in (1 - 1)..Len(p) /\ Len(p) \in Len(base)..Len(p)
    BY <2>1
  <2>3. QED  BY <1>1, <2>2, ConcatAdjacentSubSeq
<1>6. QED  BY <1>1, <1>3, <1>4, <1>5, SubSeqFull

(* For any file system, any choice in it by long or short names, any       *)
(* checksum file and any folders that cannot be listed: ProcessEverything  *)
(* (path.cpp) lists every file below the choice and nothing else but what  *)
(* the checksum file names, each relative to the base path.                *)
THEOREM ChoiceListedAlways == FileListSpec => []ChoiceListed
<1>1. FilesInv => ChoiceListed
  <2>1. SUFFICES ASSUME FilesInv PROVE ChoiceListed
    OBVIOUS
  <2>2. ASSUME Done, NEW top \in ChosenPaths, NEW p \in Plain, Below(top, p) PROVE Accounted(top, p)
    <3>1. handled = Len(list) /\ Len(list) \in Nat
      BY <2>1, <2>2 DEF FilesInv, FilesTypeOK, Stages, Done
    <3>2. ~Waiting(top, p, list, handled)
      BY <3>1 DEF Waiting
    <3>3. QED  BY <2>1, <2>2, <3>2 DEF FilesInv, Reached
  <2>3. \A p \in DOMAIN listed : (\E top \in ChosenPaths : Below(top, p)) \/ type # NotSumfile
    BY <2>1 DEF FilesInv, WithinChoice, FromChoice
  <2>4. Done => \A p \in DOMAIN listed : (\E top \in ChosenPaths : Below(top, p)) =>
                  base \o listed[p].relative = p
    BY <2>1, RelativeToBase DEF Done
  <2>5. QED  BY <2>2, <2>3, <2>4 DEF ChoiceListed, Accounted
<1>2. QED  BY <1>1, FilesInitial, FilesStep, PTL DEF FileListSpec

-----------------------------------------------------------------------------
(* The checksum file.  Its entries are stored under paths below the folder *)
(* of the file as it was chosen; what they mean is said of its normalized  *)
(* path.  Both are the same, because the long names of the folders are.    *)
LEMMA SamePath ==
  ASSUME NEW q \in Seq(Words), Len(q) > 0, NEW name \in Seq(Words), NormalizePath(q) \in Plain
  PROVE  NormalizePath(Parent(NormalizePath(q)) \o name) = NormalizePath(Parent(q) \o name)
<1> DEFINE top == NormalizePath(q)
           a == Parent(top)
           b == Parent(q)
           u == a \o name
           v == b \o name
           m == Len(q) - 1
<1>1. /\ top \in Seq(Words) /\ Len(top) = Len(q) /\ m \in Nat /\ m \in 0..Len(q)
      /\ \A i \in 1..Len(q) : top[i] = IF There(q, i) THEN LongName[q[i]] ELSE q[i]
  BY NormalizedAt
<1>2. /\ top \in Existing /\ Long(top) = top
      /\ \A n \in 1..(Len(q) - 1) : SubSeq(top, 1, n) \in Dirs
  BY <1>1, ExistingPath DEF Existing
<1>3. \A i \in 1..Len(q) : LongName[top[i]] = top[i]
  BY <1>1, <1>2, LongIs
<1>4. \A i \in 1..Len(q) : LongName[q[i]] = top[i]
  BY <1>1, <1>3
<1>5. a = SubSeq(top, 1, m) /\ b = SubSeq(q, 1, m)
  BY <1>1 DEF Parent, Front
<1>6. /\ a \in Seq(Words) /\ Len(a) = m /\ \A i \in 1..m : a[i] = top[i]
      /\ b \in Seq(Words) /\ Len(b) = m /\ \A i \in 1..m : b[i] = q[i]
  BY <1>1, <1>5, Beginning
<1> HIDE DEF top, a, b
<1>7. /\ u \in Seq(Words) /\ Len(u) = m + Len(name)
      /\ \A i \in 1..Len(u) : u[i] = IF i <= m THEN top[i] ELSE name[i - m]
  <2>0. a \in Seq(Words) /\ name \in Seq(Words) /\ Len(a) = m
    BY <1>6
  <2>1. /\ u \in Seq(Words) /\ Len(u) = Len(a) + Len(name)
        /\ \A i \in 1..(Len(a) + Len(name)) : u[i] = IF i <= Len(a) THEN a[i] ELSE name[i - Len(a)]
    BY <2>0, ConcatProperties, Zenon
  <2> HIDE DEF u
  <2>2. \A i \in 1..Len(u) : i <= m => i \in 1..m
    BY <1>1, <2>0, <2>1
  <2>3. QED  BY <1>6, <2>0, <2>1, <2>2
<1>8. /\ v \in Seq(Words) /\ Len(v) = m + Len(name)
      /\ \A i \in 1..Len(v) : v[i] = IF i <= m THEN q[i] ELSE name[i - m]
  <2>0. b \in Seq(Words) /\ name \in Seq(Words) /\ Len(b) = m
    BY <1>6
  <2>1. /\ v \in Seq(Words) /\ Len(v) = Len(b) + Len(name)
        /\ \A i \in 1..(Len(b) + Len(name)) : v[i] = IF i <= Len(b) THEN b[i] ELSE name[i - Len(b)]
    BY <2>0, ConcatProperties, Zenon
  <2> HIDE DEF v
  <2>2. \A i \in 1..Len(v) : i <= m => i \in 1..m
    BY <1>1, <2>0, <2>1
  <2>3. QED  BY <1>6, <2>0, <2>1, <2>2
<1> HIDE DEF u, v
<1>9. \A i \in 1..Len(u) : i <= m => i \in 1..Len(q)
  BY <1>1, <1>7
<1>10. Long(u) = Long(v)
  <2>1. /\ Long(u) \in Seq(Words) /\ Len(Long(u)) = Len(u)
        /\ \A i \in 1..Len(u) : Long(u)[i] = LongName[u[i]]
    BY <1>7, LongIs
  <2>2. /\ Long(v) \in Seq(Words) /\ Len(Long(v)) = Len(u)
        /\ \A i \in 1..Len(u) : Long(v)[i] = LongName[v[i]]
    BY <1>7, <1>8, LongIs
  <2>3. ASSUME NEW i \in 1..Len(u) PROVE LongName[u[i]] = LongName[v[i]]
    <3>1. CASE i <= m
      <4>1. u[i] = top[i] /\ v[i] = q[i]
        BY <1>7, <1>8, <3>1
      <4>2. QED  BY <1>3, <1>4, <1>9, <3>1, <4>1
    <3>2. CASE ~(i <= m)
      <4>1. u[i] = v[i]
        BY <1>7, <1>8, <3>2
      <4>2. QED  BY <4>1
    <3>3. QED  BY <3>1, <3>2
  <2>4. QED  BY <2>1, <2>2, <2>3, SeqEqual
<1>11. ASSUME NEW i \in 1..Len(u) PROVE There(u, i) <=> There(v, i)
  <2>1. i \in 0..Len(u) /\ i \in 0..Len(v)
    BY <1>7, <1>8
  <2>2. Long(SubSeq(u, 1, i)) = Long(SubSeq(v, 1, i))
    BY <1>7, <1>8, <1>10, <2>1, LongBeginning
  <2>3. QED  BY <2>2 DEF There
<1>12. ASSUME NEW i \in 1..Len(v), i <= m PROVE There(v, i)
  <2>1. i \in 0..Len(v) /\ i \in 0..m /\ i \in 1..(Len(q) - 1) /\ i \in 0..Len(q)
    BY <1>1, <1>7, <1>8, <1>12
  <2>2. SubSeq(v, 1, i) = SubSeq(q, 1, i)
    <3>1. /\ SubSeq(v, 1, i) \in Seq(Words) /\ Len(SubSeq(v, 1, i)) = i
          /\ \A j \in 1..i : SubSeq(v, 1, i)[j] = v[j]
      BY <1>8, <2>1, Beginning
    <3>2. /\ SubSeq(q, 1, i) \in Seq(Words) /\ Len(SubSeq(q, 1, i)) = i
          /\ \A j \in 1..i : SubSeq(q, 1, i)[j] = q[j]
      BY <2>1, Beginning
    <3>3. \A j \in 1..i : j \in 1..Len(v) /\ j <= m
      BY <1>8, <1>12
    <3>4. \A j \in 1..i : v[j] = q[j]
      BY <1>8, <3>3
    <3>5. QED  BY <3>1, <3>2, <3>4, SeqEqual
  <2>3. Long(SubSeq(q, 1, i)) = SubSeq(top, 1, i)
    <3>1. Long(q) = top
      <4>1. /\ Long(q) \in Seq(Words) /\ Len(Long(q)) = Len(q)
            /\ \A j \in 1..Len(q) : Long(q)[j] = LongName[q[j]]
        BY LongIs
      <4>2. QED  BY <1>1, <1>4, <4>1, SeqEqual DEF top
    <3>2. QED  BY <2>1, <3>1, LongBeginning
  <2>4. QED  BY <1>2, <2>1, <2>2, <2>3 DEF There, Existing, top
<1>13. NormalizePath(u) = NormalizePath(v)
  <2>1. /\ NormalizePath(u) \in Seq(Words) /\ Len(NormalizePath(u)) = Len(u)
        /\ \A i \in 1..Len(u) : NormalizePath(u)[i] = IF There(u, i) THEN LongName[u[i]] ELSE u[i]
    BY <1>7, NormalizedAt
  <2>2. /\ NormalizePath(v) \in Seq(Words) /\ Len(NormalizePath(v)) = Len(u)
        /\ \A i \in 1..Len(u) : NormalizePath(v)[i] = IF There(v, i) THEN LongName[v[i]] ELSE v[i]
    BY <1>7, <1>8, NormalizedAt
  <2>3. ASSUME NEW i \in 1..Len(u) PROVE NormalizePath(u)[i] = NormalizePath(v)[i]
    <3>0. Len(u) = Len(v)
      BY <1>7, <1>8
    <3>1. CASE i <= m
      <4>1. There(v, i) /\ There(u, i)
        BY <1>11, <1>12, <3>0, <3>1
      <4>2. u[i] = top[i] /\ v[i] = q[i] /\ i \in 1..Len(q)
        BY <1>7, <1>8, <1>9, <3>0, <3>1
      <4>3. QED  BY <1>3, <1>4, <2>1, <2>2, <4>1, <4>2
    <3>2. CASE ~(i <= m)
      <4>1. u[i] = v[i]
        BY <1>7, <1>8, <3>0, <3>2
      <4>2. QED  BY <1>11, <2>1, <2>2, <4>1
    <3>3. QED  BY <3>1, <3>2
  <2>4. QED  BY <2>1, <2>2, <2>3, SeqEqual
<1>14. QED  BY <1>13 DEF u, v, a, b, top

(* What lines say: their hashes, in their order.                           *)
Said == {line.hash : line \in SumLines}

LEMMA HashesAre ==
  ASSUME NEW sums \in Seq(SumLines)
  PROVE  /\ HashesOf(sums) \in Seq(Said) /\ Len(HashesOf(sums)) = Len(sums)
         /\ \A i \in 1..Len(sums) : HashesOf(sums)[i] = sums[i].hash
<1>1. HashesOf(sums) \in [1..Len(sums) -> Said]
  BY DEF HashesOf, Said
<1>2. QED  BY <1>1 DEF HashesOf

LEMMA OneMoreHash ==
  ASSUME NEW sums \in Seq(SumLines), NEW line \in SumLines
  PROVE  HashesOf(Append(sums, line)) = Append(HashesOf(sums), line.hash)
<1> DEFINE more == Append(sums, line)
           a == HashesOf(more)
           b == Append(HashesOf(sums), line.hash)
<1>1. /\ more \in Seq(SumLines) /\ Len(more) = Len(sums) + 1 /\ more[Len(sums) + 1] = line
      /\ \A i \in 1..Len(sums) : more[i] = sums[i]
  OBVIOUS
<1>2. /\ HashesOf(sums) \in Seq(Said) /\ Len(HashesOf(sums)) = Len(sums)
      /\ \A i \in 1..Len(sums) : HashesOf(sums)[i] = sums[i].hash
  BY HashesAre
<1>3. line.hash \in Said
  BY DEF Said
<1> HIDE DEF more
<1>4. a \in Seq(Said) /\ Len(a) = Len(sums) + 1 /\ \A i \in 1..Len(a) : a[i] = more[i].hash
  BY <1>1, HashesAre
<1>5. /\ b \in Seq(Said) /\ Len(b) = Len(sums) + 1 /\ b[Len(sums) + 1] = line.hash
      /\ \A i \in 1..Len(sums) : b[i] = sums[i].hash
  BY <1>2, <1>3
<1> HIDE DEF a, b
<1>6. \A i \in 1..(Len(sums) + 1) : i \in 1..Len(sums) \/ i = Len(sums) + 1
  OBVIOUS
<1>7. \A i \in 1..Len(a) : a[i] = b[i]
  BY <1>1, <1>4, <1>5, <1>6
<1>8. a = b
  BY <1>4, <1>5, <1>7, SeqEqual
<1>9. QED  BY <1>8 DEF a, b, more

LEMMA NoHashes == HashesOf(<<>>) = <<>>
<1>1. <<>> \in Seq(SumLines) /\ Len(<<>>) = 0
  OBVIOUS
<1>2. HashesOf(<<>>) \in Seq(Said) /\ Len(HashesOf(<<>>)) = Len(<<>>)
  BY <1>1, HashesAre, Zenon
<1>3. QED  BY <1>1, <1>2

(* While a checksum file is processed, its first n lines have been added:  *)
(* a path is expected to have what those of them say that name it, and     *)
(* nothing beside the files adds to that.                                  *)
Sumfile == NormalizePath(chosen[1])
ExpectOf(path) == IF path \in DOMAIN listed THEN listed[path].expected ELSE <<>>
SaidBefore(n, path) == HashesOf(Collected(Sums[Sumfile], Naming(Sumfile, path))[n])
Added(n) ==
  /\ entries = SubSeq(Sums[Sumfile], n + 1, Len(Sums[Sumfile]))
  /\ \A path : ExpectOf(path) = SaidBefore(n, path)

SumfileInv ==
  /\ stage \in {"list", "done"} => entries = <<>>
  /\ type # NotSumfile => /\ Len(chosen) = 1 /\ Sumfile \in Plain
                          /\ \E n \in 0..Len(Sums[Sumfile]) : Added(n)

LEMMA SumsAre ==
  ASSUME NEW p \in Plain
  PROVE  Sums[p] \in Seq(SumLines) /\ \A i \in 1..Len(Sums[p]) : Sums[p][i].name \in Seq(Words)
<1>1. Sums[p] \in Seq(ToSet(Sums[p])) /\ ToSet(Sums[p]) \subseteq SumLines
  BY FileListAssumption DEF SumLines
<1>2. \A i \in 1..Len(Sums[p]) : Sums[p][i] \in ToSet(Sums[p])
  BY <1>1
<1>3. \A e \in ToSet(Sums[p]) : e.name \in Seq(Words)
  BY FileListAssumption DEF Words
<1>4. QED  BY <1>1, <1>2, <1>3, SeqMonotonic

LEMMA SumfileInitial == FileListInit => SumfileInv
  BY DEF FileListInit, SumfileInv

(* What a step does that neither reads lines nor expects more of a file.   *)
LEMMA ExpectedKept ==
  ASSUME SumfileInv, UNCHANGED <<entries, type, chosen>>,
         stage' \in {"list", "done"} => entries = <<>>,
         type # NotSumfile => \A path : ExpectOf(path)' = ExpectOf(path)
  PROVE  SumfileInv'
<1>1. Sumfile' = Sumfile /\ \A path, n : SaidBefore(n, path)' = SaidBefore(n, path)
  BY DEF Sumfile, SaidBefore
<1>2. QED  BY <1>1 DEF SumfileInv, Added

LEMMA AddFileExpects ==
  ASSUME NEW path, AddFile(path), type # NotSumfile
  PROVE  \A p : ExpectOf(p)' = ExpectOf(p)
<1>1. HashesBeside(path) = <<>>
  BY DEF HashesBeside, Looks
<1>2. CASE path \in DOMAIN listed
  BY <1>2 DEF AddFile, ExpectOf
<1>3. CASE path \notin DOMAIN listed
  <2>1. listed' = Put(path, [relative |-> Relative(path), expected |-> <<>>])
    BY <1>1, <1>3 DEF AddFile
  <2>2. /\ DOMAIN listed' = DOMAIN listed \cup {path}
        /\ listed'[path].expected = <<>>
        /\ \A p \in DOMAIN listed : listed'[p] = listed[p]
    BY <1>3, <2>1 DEF Put
  <2>3. QED  BY <1>3, <2>2 DEF ExpectOf
<1>4. QED  BY <1>2, <1>3

(* The file is opened as a checksum file, and none of its lines is added.  *)
LEMMA ReadSumfileSays == ASSUME FilesInv, SumfileInv, ReadSumfile PROVE SumfileInv'
<1>1. /\ list = chosen /\ entries = <<>> /\ DOMAIN listed = {} /\ type = NotSumfile
      /\ UNCHANGED <<chosen, listed>> /\ stage' = "entries"
  BY DEF FilesInv, Stages, ReadSumfile
<1>2. CASE type' = NotSumfile
  BY <1>1, <1>2 DEF SumfileInv
<1>3. CASE type' # NotSumfile
  <2>1. Len(chosen) = 1 /\ Sumfile \in Plain /\ entries' = Sums[Sumfile]
    BY <1>1, <1>3 DEF ReadSumfile, Sumfile
  <2>2. Sumfile' = Sumfile
    BY <1>1 DEF Sumfile
  <2> DEFINE sums == Sums[Sumfile]
  <2>3. sums \in Seq(SumLines) /\ Len(sums) \in Nat /\ 0 \in 0..Len(sums)
    BY <2>1, SumsAre
  <2>4. SubSeq(sums, 0 + 1, Len(sums)) = sums
    BY <2>3, SubSeqFull
  <2>5. ASSUME NEW path PROVE ExpectOf(path)' = SaidBefore(0, path)
    <3>1. Collected(sums, Naming(Sumfile, path))[0] = <<>>
      <4> DEFINE places == Naming(Sumfile, path)
      <4> HIDE DEF sums, places
      <4>1. QED  BY <2>3, CollectedSteps DEF places
    <3>2. SaidBefore(0, path) = <<>>
      BY <3>1, NoHashes DEF SaidBefore
    <3>3. QED  BY <1>1, <3>2 DEF ExpectOf
  <2>6. \A n, path : SaidBefore(n, path)' = SaidBefore(n, path)
    BY <2>2 DEF SaidBefore
  <2>7. Added(0)'
    BY <2>1, <2>2, <2>4, <2>5, <2>6 DEF Added
  <2>8. QED  BY <1>1, <2>1, <2>2, <2>3, <2>7 DEF SumfileInv
<1>4. QED  BY <1>2, <1>3

(* What remains of a sequence behind its first n members.                  *)
LEMMA RestIs ==
  ASSUME NEW S, NEW s \in Seq(S), NEW n \in 0..Len(s)
  PROVE  /\ SubSeq(s, n + 1, Len(s)) = <<>> <=> n = Len(s)
         /\ n < Len(s) => /\ Head(SubSeq(s, n + 1, Len(s))) = s[n + 1]
                          /\ Tail(SubSeq(s, n + 1, Len(s))) = SubSeq(s, (n + 1) + 1, Len(s))
<1> DEFINE rest == SubSeq(s, n + 1, Len(s))
<1>1. Len(s) \in Nat /\ n \in Nat /\ n <= Len(s)
  OBVIOUS
<1>2. rest \in Seq(S) /\ Len(rest) = Len(s) - n /\ \A i \in 1..(Len(s) - n) : rest[i] = s[n + i]
  BY <1>1
<1> HIDE DEF rest
<1>3. rest = <<>> <=> n = Len(s)
  BY <1>1, <1>2
<1>4. ASSUME n < Len(s)
      PROVE  Head(rest) = s[n + 1] /\ Tail(rest) = SubSeq(s, (n + 1) + 1, Len(s))
  <2> DEFINE a == Tail(rest)
             b == SubSeq(s, (n + 1) + 1, Len(s))
             k == Len(s) - (n + 1)
  <2>1. k \in Nat /\ Len(rest) = k + 1 /\ n + 1 <= Len(s)
    BY <1>1, <1>2, <1>4
  <2>2. Head(rest) = s[n + 1]
    BY <1>1, <1>2, <1>4
  <2>3. a \in Seq(S) /\ Len(a) = k /\ \A i \in 1..k : a[i] = rest[i + 1]
    BY <1>2, <2>1
  <2>4. b \in Seq(S) /\ Len(b) = k /\ \A i \in 1..k : b[i] = s[(n + 1) + i]
    BY <1>1, <2>1
  <2>5. \A i \in 1..k : i + 1 \in 1..(Len(s) - n) /\ n + (i + 1) = (n + 1) + i
    BY <1>1, <2>1
  <2> HIDE DEF a, b, k
  <2>6. ASSUME NEW i \in 1..k PROVE a[i] = b[i]
    <3>1. a[i] = rest[i + 1] /\ b[i] = s[(n + 1) + i]
      BY <2>3, <2>4
    <3>2. rest[i + 1] = s[n + (i + 1)]
      BY <1>2, <2>5
    <3>3. QED  BY <2>5, <3>1, <3>2
  <2>7. a = b
    BY <2>3, <2>4, <2>6, SeqEqual
  <2>8. QED  BY <2>2, <2>7 DEF a, b
<1>5. QED  BY <1>3, <1>4 DEF rest

(* The next line is added.                                                 *)
LEMMA AddEntrySays == ASSUME FilesInv, SumfileInv, AddEntry PROVE SumfileInv'
<1> DEFINE sums == Sums[Sumfile]
           line == Head(entries)
           key == EntryKey(line.name)
<1>1. /\ stage = "entries" /\ entries # <<>> /\ entries' = Tail(entries)
      /\ UNCHANGED <<type, stage, chosen>>
      /\ listed' = IF line.name = <<>> THEN listed
                   ELSE IF key \in DOMAIN listed
                   THEN [listed EXCEPT ![key].expected = Append(@, line.hash)]
                   ELSE Put(key, [relative |-> Relative(key), expected |-> <<line.hash>>])
  BY DEF AddEntry
<1>2. type # NotSumfile
  BY <1>1 DEF FilesInv, Stages
<1>3. PICK n \in 0..Len(sums) : Added(n)
  BY <1>2 DEF SumfileInv
<1>4. Len(chosen) = 1 /\ Sumfile \in Plain
  BY <1>2 DEF SumfileInv
<1>5. sums \in Seq(SumLines) /\ Len(sums) \in Nat /\ \A i \in 1..Len(sums) : sums[i].name \in Seq(Words)
  BY <1>4, SumsAre
<1>6. entries = SubSeq(sums, n + 1, Len(sums))
  BY <1>3 DEF Added
<1>7. /\ n + 1 \in 1..Len(sums) /\ line = sums[n + 1]
      /\ entries' = SubSeq(sums, (n + 1) + 1, Len(sums))
  <2>1. n # Len(sums)
    <3> HIDE DEF sums, line, key
    <3>1. SubSeq(sums, n + 1, Len(sums)) # <<>>
      BY <1>1, <1>6
    <3>2. QED  BY <1>5, <3>1, RestIs
  <2>2. n < Len(sums) /\ n + 1 \in 1..Len(sums)
    BY <1>5, <2>1
  <2> HIDE DEF sums
  <2>3. /\ Head(SubSeq(sums, n + 1, Len(sums))) = sums[n + 1]
        /\ Tail(SubSeq(sums, n + 1, Len(sums))) = SubSeq(sums, (n + 1) + 1, Len(sums))
    BY <1>5, <2>2, RestIs
  <2>4. QED  BY <1>1, <1>6, <2>2, <2>3
<1>8. line \in SumLines /\ line.name \in Seq(Words)
  <2> HIDE DEF sums, line
  <2>1. QED  BY <1>5, <1>7
<1>9. key = NormalizePath(Parent(Sumfile) \o line.name)
  <2>1. chosen[1] \in Seq(Words) /\ Len(chosen[1]) > 0
    BY <1>4, ChoiceIs DEF FilesInv, FilesTypeOK
  <2>2. QED  BY <1>4, <1>8, <2>1, SamePath DEF EntryKey, Sumfile
<1>10. Sumfile' = Sumfile /\ \A m, path : SaidBefore(m, path)' = SaidBefore(m, path)
  BY <1>1 DEF Sumfile, SaidBefore
<1>11. ASSUME NEW path
       PROVE  SaidBefore(n + 1, path) = IF line.name # <<>> /\ path = key
                                        THEN Append(SaidBefore(n, path), line.hash)
                                        ELSE SaidBefore(n, path)
  <2> DEFINE places == Naming(Sumfile, path)
             c == Collected(sums, places)
  <2>1. n + 1 \in places <=> line.name # <<>> /\ path = key
    <3>1. DOMAIN sums = 1..Len(sums)
      BY <1>5
    <3>2. QED  BY <1>7, <1>9, <3>1 DEF Naming
  <2>2. c[n + 1] = IF n + 1 \in places THEN Append(c[n], line) ELSE c[n]
    <3>1. sums \in Seq(SumLines) /\ n + 1 \in 0..Len(sums) /\ line = sums[n + 1]
      BY <1>5, <1>7
    <3> HIDE DEF sums, places, line
    <3>2. QED  BY <3>1, CollectedSteps
  <2>3. c[n] \in Seq(SumLines)
    BY <1>5, CollectedMeans
  <2> HIDE DEF c, places
  <2>4. SaidBefore(n + 1, path) = HashesOf(c[n + 1]) /\ SaidBefore(n, path) = HashesOf(c[n])
    BY DEF SaidBefore, c, places
  <2>5. QED  BY <1>8, <2>1, <2>2, <2>3, <2>4, OneMoreHash
<1> HIDE DEF sums, line, key
<1>12. ASSUME NEW path
       PROVE  ExpectOf(path)' = IF line.name # <<>> /\ path = key
                                THEN Append(ExpectOf(path), line.hash) ELSE ExpectOf(path)
  <2>1. CASE line.name = <<>>
    BY <1>1, <2>1 DEF ExpectOf
  <2>2. CASE line.name # <<>> /\ key \notin DOMAIN listed
    <3>1. listed' = Put(key, [relative |-> Relative(key), expected |-> <<line.hash>>])
      BY <1>1, <2>2
    <3>2. /\ DOMAIN listed' = DOMAIN listed \cup {key}
          /\ listed'[key].expected = <<line.hash>>
          /\ \A p \in DOMAIN listed : listed'[p] = listed[p]
      BY <2>2, <3>1 DEF Put
    <3>3. Append(<<>>, line.hash) = <<line.hash>>
      OBVIOUS
    <3>4. QED  BY <2>2, <3>2, <3>3 DEF ExpectOf
  <2>3. CASE line.name # <<>> /\ key \in DOMAIN listed
    <3>1. listed' = [listed EXCEPT ![key].expected = Append(@, line.hash)]
      BY <1>1, <2>3
    <3>2. "expected" \in DOMAIN listed[key]
      BY <1>1, <2>3 DEF FilesInv, Based
    <3>3. /\ DOMAIN listed' = DOMAIN listed
          /\ listed'[key].expected = Append(listed[key].expected, line.hash)
          /\ \A p \in DOMAIN listed \ {key} : listed'[p] = listed[p]
      BY <2>3, <3>1, <3>2
    <3>4. QED  BY <2>3, <3>3 DEF ExpectOf
  <2>4. QED  BY <2>1, <2>2, <2>3
<1>13. \A path : ExpectOf(path)' = SaidBefore(n + 1, path)
  BY <1>3, <1>11, <1>12 DEF Added
<1>14. Added(n + 1)'
  BY <1>7, <1>10, <1>13 DEF Added, sums
<1>15. n + 1 \in 0..Len(sums)
  BY <1>7
<1>16. QED  BY <1>1, <1>4, <1>10, <1>14, <1>15 DEF SumfileInv, sums

LEMMA SumfileStep == ASSUME FilesInv, SumfileInv, [FileListNext]_listVars PROVE SumfileInv'
<1>1. CASE HandleFile
  <2>1. UNCHANGED <<entries, type, stage, chosen>> /\ AddFile(NormalizePath(list[handled + 1]))
    BY <1>1 DEF HandleFile
  <2>2. type # NotSumfile => \A p : ExpectOf(p)' = ExpectOf(p)
    BY <2>1, AddFileExpects
  <2>3. QED  BY <2>1, <2>2, ExpectedKept DEF SumfileInv
<1>2. CASE ListFolderFails
  <2>1. UNCHANGED <<entries, type, stage, chosen>> /\ AddFile(NormalizePath(list[handled + 1]))
    BY <1>2 DEF ListFolderFails
  <2>2. type # NotSumfile => \A p : ExpectOf(p)' = ExpectOf(p)
    BY <2>1, AddFileExpects
  <2>3. QED  BY <2>1, <2>2, ExpectedKept DEF SumfileInv
<1>3. CASE EntriesAdded \/ ListFolder \/ ListDone \/ UNCHANGED listVars
  <2>1. /\ UNCHANGED <<entries, type, chosen, listed>>
        /\ stage' \in {"list", "done"} => entries = <<>> \/ stage \in {"list", "done"}
    BY <1>3 DEF EntriesAdded, ListFolder, ListDone, listVars
  <2>2. \A p : ExpectOf(p)' = ExpectOf(p)
    BY <2>1 DEF ExpectOf
  <2>3. QED  BY <2>1, <2>2, ExpectedKept DEF SumfileInv
<1>4. QED  BY <1>1, <1>2, <1>3, ReadSumfileSays, AddEntrySays DEF FileListNext

(* For any file system and any checksum file, however often and by         *)
(* whatever words its lines name a file: what ProcessEverything (path.cpp) *)
(* expects of a file it lists is what those lines say, in their order, and *)
(* no checksum file beside one adds to that.                               *)
THEOREM SumfileAloneCountsAlways == FileListSpec => []SumfileAloneCounts
<1>1. FilesInv /\ SumfileInv => SumfileAloneCounts
  <2>1. SUFFICES ASSUME FilesInv, SumfileInv, Done, type # NotSumfile PROVE SumfileAloneCounts
    BY DEF SumfileAloneCounts
  <2> DEFINE sums == Sums[Sumfile]
  <2>2. PICK n \in 0..Len(sums) : Added(n)
    BY <2>1 DEF SumfileInv
  <2>3. Len(chosen) = 1 /\ Sumfile \in Plain /\ entries = <<>>
    BY <2>1 DEF SumfileInv, Done
  <2>4. sums \in Seq(SumLines) /\ Len(sums) \in Nat
    BY <2>3, SumsAre
  <2>5. entries = SubSeq(sums, n + 1, Len(sums))
    BY <2>2 DEF Added
  <2> HIDE DEF sums
  <2>6. n = Len(sums)
    BY <2>3, <2>4, <2>5, RestIs
  <2>7. ChosenPaths = {Sumfile}
    <3>1. ToSet(chosen) = {chosen[1]}
      <4>1. chosen \in Seq(Seq(Words))
        BY <2>1, ChoiceIs DEF FilesInv, FilesTypeOK
      <4>2. QED  BY <2>3, <4>1 DEF ToSet
    <3>2. QED  BY <3>1 DEF ChosenPaths, Sumfile
  <2>8. (CHOOSE p \in ChosenPaths : TRUE) = Sumfile
    BY <2>7
  <2>9. \A p \in DOMAIN listed : listed[p].expected = HashesOf(Selected(sums, Naming(Sumfile, p)))
    BY <2>2, <2>6 DEF Added, ExpectOf, SaidBefore, Selected, sums
  <2>10. QED  BY <2>8, <2>9 DEF SumfileAloneCounts, sums
<1>2. QED  BY <1>1, FilesInitial, FilesStep, SumfileInitial, SumfileStep, PTL DEF FileListSpec

-----------------------------------------------------------------------------
(* What an exporter writes: comments with one sign, and entries that are   *)
(* read in the one style they were written in.                             *)
Jobs == [exporter : Exporters, banner : BOOLEAN, double_space : BOOLEAN,
         dot_hash_compatible : BOOLEAN, enabled : Enabled, hashed : Hashed, files : Files]
JobTypeOK == job \in Jobs /\ ToSet(job.exporter.algs) \subseteq job.hashed
Faithful == AllHashed /\ (Starred \/ PlainNames)

Sign == IF job.exporter.kind = "sfv" THEN "semicolon" ELSE "sharp"
Style == IF job.exporter.kind = "sfv" THEN "sfv" ELSE "hex"
ReadAs(l, sign, style) ==
  /\ ~l.digits /\ l.readable
  /\ l.style = "none" => l.first = sign
  /\ l.style # "none" => /\ l.style = style /\ l.first = "other"
                         /\ style = "sfv" => l.sfv
                         /\ style = "hex" => l.hex /\ ~l.sfv
LinesFor(sign, style) ==
  {l \in [first : {"sharp", "semicolon", "other"}, sfv : BOOLEAN, hex : BOOLEAN, base64 : BOOLEAN,
          digits : BOOLEAN, readable : BOOLEAN, style : {"none", "sfv", "hex"}] :
     ReadAs(l, sign, style)}

LEMMA NamesWritten ==
  ASSUME JobTypeOK
  PROVE  Sorted \in Seq(Named) /\ EnabledAlgs \in Seq(job.enabled) /\ Named \subseteq NameKinds
<1>1. Names \in Seq(NameKinds) /\ DOMAIN Names = 1..Len(Names) /\ AlgorithmCount \in Nat
  BY ExportAssumption
<1>2. Sorted \in Seq(Named)
  <2> DEFINE places == {i \in DOMAIN Names : job.files[i] = "hashed"}
  <2>1. \A i \in 1..Len(Names) : i \in places => Names[i] \in Named
    BY DEF Named
  <2> HIDE DEF places
  <2>2. Selected(Names, places) \in Seq(Named)
    BY <1>1, <2>1, CollectsWithin, Zenon
  <2>3. QED  BY <2>2 DEF Sorted, places
<1>3. EnabledAlgs \in Seq(job.enabled)
  <2> DEFINE places == {i \in 1..AlgorithmCount : i - 1 \in job.enabled}
             all == [i \in 1..AlgorithmCount |-> i - 1]
  <2>1. all \in Seq(Nat) /\ Len(all) = AlgorithmCount
    BY <1>1
  <2>2. \A i \in 1..Len(all) : i \in places => all[i] \in job.enabled
    BY <2>1
  <2> HIDE DEF places, all
  <2>3. Selected(all, places) \in Seq(job.enabled)
    BY <2>1, <2>2, CollectsWithin, Zenon
  <2>4. QED  BY <2>3 DEF EnabledAlgs, places, all
<1>4. QED  BY <1>1, <1>2, <1>3 DEF Named

LEMMA CommentWritten ==
  ASSUME NEW sign \in {"sharp", "semicolon"}, NEW style
  PROVE  Comment(sign) \in LinesFor(sign, style)
  BY DEF Comment, LinesFor, ReadAs

LEMMA BannerWritten ==
  ASSUME NEW sign \in {"sharp", "semicolon"}, NEW style
  PROVE  Banner(sign) \in Seq(LinesFor(sign, style))
<1>1. Comment(sign) \in LinesFor(sign, style)
  BY CommentWritten
<1>2. QED  BY <1>1 DEF Banner

LEMMA SfvWritten ==
  ASSUME JobTypeOK, Faithful, job.exporter.kind = "sfv"
  PROVE  SFVString \in Seq(LinesFor(Sign, Style))
<1>1. Sign = "semicolon" /\ Style = "sfv" /\ PlainNames
  BY DEF Sign, Style, Faithful, Starred
<1>2. Sorted \in Seq(Named)
  BY NamesWritten
<1>3. ASSUME NEW n \in Named PROVE SfvLine(n) \in LinesFor("semicolon", "sfv")
  <2>1. n.first = "other" /\ ~n.blank /\ n.digits = "no"
    BY <1>1 DEF PlainNames
  <2>2. n.blank \in BOOLEAN /\ n.digits \in {"pairs", "odd", "no"}
    BY NamesWritten DEF NameKinds
  <2>3. QED  BY <2>1, <2>2 DEF SfvLine, LinesFor, ReadAs
<1> DEFINE rows == [i \in DOMAIN Sorted |-> SfvLine(Sorted[i])]
<1>4. rows \in Seq(LinesFor("semicolon", "sfv"))
  <2>1. \A i \in 1..Len(Sorted) : SfvLine(Sorted[i]) \in LinesFor("semicolon", "sfv")
    BY <1>2, <1>3
  <2>2. DOMAIN Sorted = 1..Len(Sorted) /\ Len(Sorted) \in Nat
    BY <1>2
  <2>3. QED  BY <2>1, <2>2
<1>5. Banner("semicolon") \in Seq(LinesFor("semicolon", "sfv"))
  BY BannerWritten
<1> HIDE DEF rows
<1>6. Banner("semicolon") \o rows \in Seq(LinesFor("semicolon", "sfv"))
  BY <1>4, <1>5
<1>7. QED  BY <1>1, <1>6 DEF SFVString, rows

(* One file's line for one algorithm, in a checksum file or .hash.         *)
LEMMA HashWritten ==
  ASSUME JobTypeOK, Faithful, job.exporter.kind \in {"hash", "sum"}, NEW n \in Named,
         NEW alg \in job.hashed
  PROVE  WriteHash(n, alg, job.exporter.kind = "hash") \in Seq(LinesFor("sharp", "hex"))
<1> DEFINE dot == job.exporter.kind = "hash"
           double == ~dot /\ job.double_space
           line == SumLine(n, double, alg \in job.hashed)
<1>1. n.digits \in {"pairs", "odd", "no"} /\ n.eight \in BOOLEAN /\ (n.eight => n.digits = "pairs") /\ dot \in BOOLEAN
      /\ job.double_space \in BOOLEAN
  BY NamesWritten DEF NameKinds, JobTypeOK, Jobs
<1>2. double => n.digits = "no"
  BY <1>1 DEF Faithful, Starred, PlainNames
<1>3. line \in LinesFor("sharp", "hex")
  BY <1>1, <1>2 DEF SumLine, LinesFor, ReadAs
<1> DEFINE above == IF dot \/ job.dot_hash_compatible THEN <<Comment(CorzSign)>> ELSE <<>>
<1>4. above \in Seq(LinesFor("sharp", "hex"))
  <2>1. Comment(CorzSign) \in LinesFor("sharp", "hex")
    BY CommentWritten DEF CorzSign
  <2>2. QED  BY <2>1
<1> HIDE DEF above, line
<1>5. above \o <<line>> \in Seq(LinesFor("sharp", "hex"))
  BY <1>3, <1>4
<1>6. QED  BY <1>5 DEF WriteHash, above, line

(* The lines of a checksum file, file by file and algorithm by algorithm.  *)
RowsStep(g, algs, dot_hash, k) ==
  IF k = 0 THEN Banner("sharp")
  ELSE g[k - 1] \o WriteHash(Sorted[(k - 1) \div Len(algs) + 1],
                             algs[((k - 1) % Len(algs)) + 1], dot_hash)
WritingRows(algs, dot_hash) ==
  CHOOSE g : g = [k \in 0..(Len(Sorted) * Len(algs)) |-> RowsStep(g, algs, dot_hash, k)]

LEMMA SumfileIs ==
  \A algs, dot_hash :
    SumfileString(algs, dot_hash) = WritingRows(algs, dot_hash)[Len(Sorted) * Len(algs)]
  BY DEF SumfileString, WritingRows, RowsStep

(* Each row is of one file and one algorithm.                              *)
LEMMA RowOf ==
  ASSUME NEW n \in Nat, NEW m \in Nat, NEW k \in 1..(n * m)
  PROVE  /\ m > 0 /\ (k - 1) \div m + 1 \in 1..n /\ ((k - 1) % m) + 1 \in 1..m
<1>1. m > 0
  <2>1. CASE m = 0
    BY <2>1, SMT
  <2>2. QED  BY <2>1
<1> DEFINE q == (k - 1) \div m
           r == (k - 1) % m
<1>2. q \in Nat /\ r \in 0..(m - 1) /\ k - 1 = m * q + r
  BY <1>1
<1> HIDE DEF q, r
<1>3. q < n
  <2>1. SUFFICES ASSUME q >= n PROVE FALSE
    BY <1>2
  <2>2. m * q >= m * n
    BY <1>2, <2>1, SMT
  <2>3. m * n = n * m /\ m * q \in Nat /\ n * m \in Nat
    BY <1>2
  <2>4. QED  BY <1>2, <2>2, <2>3
<1>4. QED  BY <1>1, <1>2, <1>3 DEF q, r

LEMMA SumfileWritten ==
  ASSUME JobTypeOK, Faithful, job.exporter.kind \in {"hash", "sum"}, NEW algs \in Seq(job.hashed)
  PROVE  SumfileString(algs, job.exporter.kind = "hash") \in Seq(LinesFor("sharp", "hex"))
<1> DEFINE V == Seq(LinesFor("sharp", "hex"))
           dot == job.exporter.kind = "hash"
           named == Len(Sorted)
           m == Len(algs)
           N == named * m
           NextRow(k) == WriteHash(Sorted[(k - 1) \div m + 1], algs[((k - 1) % m) + 1], dot)
           F == [p \in V \X (1..N) |-> p[1] \o NextRow(p[2])]
<1>1. Sorted \in Seq(Named) /\ named \in Nat /\ m \in Nat /\ N \in Nat
  BY NamesWritten
<1>2. ASSUME NEW k \in 1..N PROVE NextRow(k) \in V
  <2>1. (k - 1) \div m + 1 \in 1..named /\ ((k - 1) % m) + 1 \in 1..m
    BY <1>1, RowOf
  <2>2. Sorted[(k - 1) \div m + 1] \in Named /\ algs[((k - 1) % m) + 1] \in job.hashed
    BY <1>1, <2>1
  <2>3. QED  BY <2>2, HashWritten
<1> HIDE DEF NextRow, N
<1>3. ASSUME NEW s \in V, NEW k \in 1..N PROVE s \o NextRow(k) \in V
  BY <1>2
<1>4. Banner("sharp") \in V
  BY BannerWritten
<1> HIDE DEF V
<1>5. F \in [V \X (1..N) -> V] /\ \A s \in V, k \in 1..N : F[<<s, k>>] = s \o NextRow(k)
  BY <1>3
<1> HIDE DEF F
<1>6. PICK f \in [0..N -> V] : Stepwise(f, N, Banner("sharp"), F)
  BY <1>1, <1>4, <1>5, StepsExist
<1>7. ASSUME NEW k \in 0..N PROVE f[k] = RowsStep(f, algs, dot, k)
  <2>1. CASE k = 0
    BY <1>6, <2>1 DEF RowsStep, Stepwise
  <2>2. CASE k # 0
    <3>1. k - 1 \in 0..N /\ k \in 1..N
      BY <1>1, <2>2
    <3>2. f[k] = F[<<f[k - 1], k>>] /\ f[k - 1] \in V
      BY <1>6, <2>2, <3>1 DEF Stepwise
    <3>3. f[k] = f[k - 1] \o NextRow(k)
      BY <1>5, <3>1, <3>2
    <3>4. QED  BY <2>2, <3>3 DEF RowsStep, NextRow
  <2>3. QED  BY <2>1, <2>2
<1>8. f = [k \in 0..N |-> RowsStep(f, algs, dot, k)]
  <2> DEFINE h == [k \in 0..N |-> RowsStep(f, algs, dot, k)]
  <2>1. \A k \in 0..N : f[k] = h[k]
    BY <1>7
  <2>2. f = h
    BY <1>6, <2>1
  <2>3. QED  BY <2>2
<1> DEFINE t == WritingRows(algs, dot)
<1>9. t = [k \in 0..N |-> RowsStep(t, algs, dot, k)]
  BY <1>8 DEF WritingRows, N
<1> HIDE DEF t
<1>10. \A k \in 0..N : t[k] = RowsStep(t, algs, dot, k)
  BY <1>9
<1> DEFINE Good == {k \in Nat : k <= N => t[k] \in V}
<1>11. 0 \in Good
  <2>1. t[0] = Banner("sharp")
    BY <1>1, <1>10 DEF RowsStep
  <2>2. QED  BY <1>4, <2>1
<1>12. ASSUME NEW k \in Nat, k \in Good PROVE k + 1 \in Good
  <2> SUFFICES ASSUME k + 1 <= N PROVE t[k + 1] \in V
    OBVIOUS
  <2>1. k + 1 \in 1..N /\ k + 1 # 0 /\ (k + 1) - 1 = k /\ k + 1 \in 0..N /\ t[k] \in V
    BY <1>1, <1>12
  <2>2. t[k + 1] = t[k] \o NextRow(k + 1)
    BY <1>10, <2>1 DEF RowsStep, NextRow
  <2>3. QED  BY <1>3, <2>1, <2>2
<1>13. N \in Good
  <2> HIDE DEF Good
  <2>1. QED  BY <1>1, <1>11, <1>12, NumberInduction
<1>14. t[N] \in V
  BY <1>1, <1>13
<1>15. QED  BY <1>14, SumfileIs DEF t, V, N

(* So is what any exporter writes.                                         *)
LEMMA ExportWritten ==
  ASSUME JobTypeOK, Faithful
  PROVE  ExportString \in Seq(LinesFor(Sign, Style))
<1>1. job.exporter.kind \in {"sfv", "hash", "sum"} /\ job.exporter.algs \in Seq(AllAlgs)
  BY ExportAssumption DEF JobTypeOK, Jobs
<1>2. CASE job.exporter.kind = "sfv"
  BY <1>2, SfvWritten DEF ExportString
<1>3. CASE job.exporter.kind = "hash"
  <2>1. EnabledAlgs \in Seq(job.hashed)
    <3>1. EnabledAlgs \in Seq(job.enabled) /\ job.enabled \subseteq job.hashed
      BY <1>3, NamesWritten DEF Faithful, AllHashed
    <3>2. QED  BY <3>1
  <2>2. SumfileString(EnabledAlgs, job.exporter.kind = "hash") \in Seq(LinesFor("sharp", "hex"))
    BY <1>3, <2>1, SumfileWritten
  <2>3. ExportString = SumfileString(EnabledAlgs, TRUE) /\ (job.exporter.kind = "hash") = TRUE
    BY <1>3 DEF ExportString
  <2>4. Sign = "sharp" /\ Style = "hex"
    BY <1>3 DEF Sign, Style
  <2>5. QED  BY <2>2, <2>3, <2>4
<1>4. CASE job.exporter.kind = "sum"
  <2>1. job.exporter.algs \in Seq(job.hashed)
    <3>1. \A i \in 1..Len(job.exporter.algs) : job.exporter.algs[i] \in job.hashed
      BY <1>1 DEF JobTypeOK, ToSet
    <3>2. QED  BY <1>1, <3>1
  <2>2. SumfileString(job.exporter.algs, job.exporter.kind = "hash") \in Seq(LinesFor("sharp", "hex"))
    BY <1>4, <2>1, SumfileWritten
  <2>3. ExportString = SumfileString(job.exporter.algs, FALSE) /\ (job.exporter.kind = "hash") = FALSE
    BY <1>4 DEF ExportString
  <2>4. Sign = "sharp" /\ Style = "hex"
    BY <1>4 DEF Sign, Style
  <2>5. QED  BY <2>2, <2>3, <2>4
<1>5. QED  BY <1>1, <1>2, <1>3, <1>4

-----------------------------------------------------------------------------
(* How far the parser has come with what was exported: it holds the        *)
(* entries of the lines read so far.                                       *)
Parsed == {"open", "map", "view", "single", "lines"}
Entries == [i \in DOMAIN whole |-> Entry(i, whole[i].style)]
EntryLines == {i \in DOMAIN whole : whole[i].style # "none"}
ReadSoFar ==
  /\ at \in 0..Len(whole) /\ (pc # "lines" => at = 0)
  /\ files = Collected(Entries, EntryLines)[at]
  /\ comment \in {"unknown", Sign} /\ hash \in {"unknown", Style}

ExportInv ==
  /\ JobTypeOK
  /\ pc \in Parsed \cup {"export", "write", "failed", "returned"}
  /\ pc \in {"export", "write"} =>
       at = 0 /\ files = <<>> /\ comment = "unknown" /\ hash = "unknown" /\ output = <<>> /\ saved = "no"
  /\ pc # "export" /\ Faithful => whole \in Seq(LinesFor(Sign, Style))
  /\ pc \in Parsed =>
       /\ lines = whole /\ size \in {"tiny", "small", "large"} /\ output = <<>>
       /\ size = "tiny" => whole = <<>>
  /\ pc \in Parsed /\ Faithful => ReadSoFar
  /\ pc = "failed" => ~Faithful
  /\ ReadsBack

LEMMA ExportInitial == ExportInit => ExportInv
<1>1. SUFFICES ASSUME ExportInit PROVE ExportInv
  OBVIOUS
<1>2. JobTypeOK
  BY <1>1 DEF ExportInit, JobTypeOK, Jobs
<1>3. pc = "export" /\ pc \notin Parsed
  BY <1>1 DEF ExportInit, Parsed
<1>4. QED  BY <1>1, <1>2, <1>3 DEF ExportInit, ExportInv, ReadsBack, Read

(* What depends on the export only stays while that does.                  *)
LEMMA ExportStays ==
  ASSUME job' = job
  PROVE  /\ (JobTypeOK' <=> JobTypeOK) /\ (Faithful' <=> Faithful)
         /\ Sign' = Sign /\ Style' = Style
         /\ whole' = whole => /\ Entries' = Entries /\ EntryLines' = EntryLines
                              /\ Expected' = Expected
<1>1. (JobTypeOK' <=> JobTypeOK) /\ Sign' = Sign /\ Style' = Style
  BY DEF JobTypeOK, Jobs, Sign, Style, Files
<1>2. (AllHashed' <=> AllHashed) /\ (Starred' <=> Starred)
  BY DEF AllHashed, Starred
<1>3. PlainNames' <=> PlainNames
  BY DEF PlainNames, Named
<1>4. whole' = whole => Entries' = Entries /\ EntryLines' = EntryLines /\ Expected' = Expected
  BY DEF Entries, EntryLines, Expected
<1>5. QED  BY <1>1, <1>2, <1>3, <1>4 DEF Faithful

LEMMA WrittenLines ==
  ASSUME NEW sign, NEW style, whole \in Seq(LinesFor(sign, style))
  PROVE  /\ Len(whole) \in Nat /\ DOMAIN whole = 1..Len(whole)
         /\ \A i \in 1..Len(whole) : whole[i] \in LinesFor(sign, style)
         /\ Entries \in Seq([line : Nat, style : {"none", "sfv", "hex"}])
         /\ Len(Entries) = Len(whole) /\ \A i \in 1..Len(whole) : Entries[i] = Entry(i, whole[i].style)
         /\ Expected = Collected(Entries, EntryLines)[Len(whole)]
         /\ Collected(Entries, EntryLines)[0] = <<>>
<1>1. /\ Len(whole) \in Nat /\ DOMAIN whole = 1..Len(whole)
      /\ \A i \in 1..Len(whole) : whole[i] \in LinesFor(sign, style)
  OBVIOUS
<1>2. \A i \in 1..Len(whole) : Entry(i, whole[i].style) \in [line : Nat, style : {"none", "sfv", "hex"}]
  BY <1>1 DEF Entry, LinesFor
<1>3. Entries \in Seq([line : Nat, style : {"none", "sfv", "hex"}]) /\ Len(Entries) = Len(whole)
      /\ \A i \in 1..Len(whole) : Entries[i] = Entry(i, whole[i].style)
  BY <1>1, <1>2 DEF Entries
<1>4. Expected = Selected(Entries, EntryLines)
  BY DEF Expected, Entries, EntryLines
<1>5. Collected(Entries, EntryLines)[0] = <<>>
  BY <1>3, CollectedSteps
<1>6. QED  BY <1>1, <1>3, <1>4, <1>5 DEF Selected

LEMMA SavingKeeps == ASSUME ExportInv, Create \/ Write PROVE ExportInv'
<1>1. job' = job /\ output' = output /\ error' = error
      /\ at' = at /\ files' = files /\ comment' = comment /\ hash' = hash
  BY DEF Create, Write, parserVars
<1>2. /\ (JobTypeOK' <=> JobTypeOK) /\ (Faithful' <=> Faithful) /\ Sign' = Sign /\ Style' = Style
      /\ LinesFor(Sign, Style)' = LinesFor(Sign, Style)
  BY <1>1, ExportStays DEF LinesFor, ReadAs
<1>3. CASE Create
  <2>1. pc = "export" /\ pc' \in {"returned", "write"} /\ (pc' = "returned" => saved' = "error")
        /\ (pc' = "write" => saved' = "no")
    BY <1>3 DEF Create
  <2>2. Faithful => whole' \in Seq(LinesFor(Sign, Style))
    BY <1>3, ExportWritten DEF Create, ExportInv
  <2>3. pc' \notin Parsed
    BY <2>1 DEF Parsed
  <2>4. ReadsBack'
    BY <2>1 DEF ReadsBack, Read
  <2>5. QED  BY <1>1, <1>2, <2>1, <2>2, <2>3, <2>4 DEF ExportInv
<1>4. CASE Write
  <2>1. /\ pc = "write" /\ whole' = whole
        /\ \/ /\ saved' = "yes" /\ pc' = "open" /\ lines' = whole
              /\ size' \in IF whole = <<>> THEN {"tiny"} ELSE {"small", "large"}
           \/ saved' = "error" /\ pc' = "returned"
    BY <1>4 DEF Write
  <2>2. ReadsBack'
    BY <2>1 DEF ReadsBack, Read
  <2>3. Faithful => whole \in Seq(LinesFor(Sign, Style))
    BY <2>1 DEF ExportInv
  <2>4. pc' = "open" /\ Faithful => ReadSoFar'
    <3> SUFFICES ASSUME pc' = "open", Faithful PROVE ReadSoFar'
      OBVIOUS
    <3>1. Len(whole) \in Nat /\ Collected(Entries, EntryLines)[0] = <<>>
      BY <2>3, WrittenLines
    <3>2. Entries' = Entries /\ EntryLines' = EntryLines
      BY <1>1, <2>1, ExportStays
    <3>3. at' = 0 /\ files' = <<>> /\ comment' = "unknown" /\ hash' = "unknown"
      BY <1>1, <2>1 DEF ExportInv
    <3>4. QED  BY <2>1, <3>1, <3>2, <3>3 DEF ReadSoFar
  <2>5. pc' \in Parsed => pc' = "open" /\ lines' = whole /\ size' \in {"tiny", "small", "large"}
                          /\ (size' = "tiny" => whole = <<>>)
    BY <2>1 DEF Parsed
  <2>6. output' = <<>>
    BY <1>1, <2>1 DEF ExportInv
  <2>7. QED  BY <1>2, <2>1, <2>2, <2>3, <2>4, <2>5, <2>6 DEF ExportInv, Parsed
<1>5. QED  BY <1>3, <1>4

(* The whole of an exported file is never taken for one hash.              *)
LEMMA NotSingle ==
  ASSUME ExportInv, pc \in Parsed, Faithful
  PROVE  ~IsSingle
<1>1. lines = whole /\ whole \in Seq(LinesFor(Sign, Style))
  BY DEF ExportInv, Parsed
<1>2. \A i \in DOMAIN lines : ~lines[i].digits
  BY <1>1, WrittenLines DEF LinesFor, ReadAs
<1>3. QED  BY <1>2 DEF IsSingle, OneHash

(* Before the lines are read nothing changes but what is held.             *)
LEMMA OpeningExport ==
  ASSUME ExportInv, Open \/ Map \/ View \/ Single, UNCHANGED exportVars
  PROVE  ExportInv'
<1>1. /\ job' = job /\ whole' = whole /\ saved' = saved /\ UNCHANGED <<fileVars, parserVars>>
      /\ lines' = lines /\ size' = size
      /\ at' = at /\ files' = files /\ comment' = comment /\ hash' = hash
  BY DEF exportVars, Open, Map, View, Single, fileVars, parserVars
<1>2. /\ (JobTypeOK' <=> JobTypeOK) /\ (Faithful' <=> Faithful) /\ Sign' = Sign /\ Style' = Style
      /\ LinesFor(Sign, Style)' = LinesFor(Sign, Style)
      /\ Entries' = Entries /\ EntryLines' = EntryLines /\ Expected' = Expected
  BY <1>1, ExportStays DEF LinesFor, ReadAs
<1>3. pc \in {"open", "map", "view", "single"} /\ pc \in Parsed
  BY DEF Open, Map, View, Single, Parsed
<1>4. pc' \in {"map", "view", "single", "lines", "returned"}
  BY DEF Open, Map, View, Single, Return
<1>5. pc' # "returned" => output' = output
  BY DEF Open, Map, View, Single, Return
<1>6. Faithful => ReadSoFar /\ at = 0 /\ whole \in Seq(LinesFor(Sign, Style))
  BY <1>3 DEF ExportInv, ReadSoFar, Parsed
<1>7. Faithful => ReadSoFar'
  BY <1>1, <1>2, <1>6 DEF ReadSoFar
<1>8. pc' = "returned" /\ saved' = "yes" /\ ~error' /\ Faithful => output' = Expected
  <2> SUFFICES ASSUME pc' = "returned", ~error', Faithful PROVE output' = Expected
    OBVIOUS
  <2>1. ~IsSingle
    BY <1>3, NotSingle
  <2>2. Open /\ size \in {"tiny", "huge"} /\ output' = output
    BY <2>1 DEF Open, Map, View, Single, Return
  <2>3. whole = <<>> /\ output = <<>>
    BY <1>3, <2>2 DEF ExportInv
  <2>4. Len(whole) = 0
    BY <2>3
  <2>5. Expected = <<>>
    BY <1>6, <2>4, WrittenLines
  <2>6. QED  BY <2>2, <2>3, <2>5
<1>9. ReadsBack'
  BY <1>2, <1>8 DEF ReadsBack, Read, Faithful
<1>10. QED
  BY <1>1, <1>2, <1>3, <1>4, <1>5, <1>6, <1>7, <1>9 DEF ExportInv, Parsed

(* A line that was exported is read as what it was written for.            *)
LEMMA LineExport ==
  ASSUME ExportInv, ProcessLine, UNCHANGED exportVars
  PROVE  ExportInv'
<1>1. /\ job' = job /\ whole' = whole /\ saved' = saved /\ lines' = lines /\ size' = size
      /\ output' = output /\ error' = error
  BY DEF exportVars, ProcessLine, fileVars
<1>2. /\ (JobTypeOK' <=> JobTypeOK) /\ (Faithful' <=> Faithful) /\ Sign' = Sign /\ Style' = Style
      /\ LinesFor(Sign, Style)' = LinesFor(Sign, Style)
      /\ Entries' = Entries /\ EntryLines' = EntryLines /\ Expected' = Expected
  BY <1>1, ExportStays DEF LinesFor, ReadAs
<1>3. pc = "lines" /\ pc \in Parsed /\ pc' \in {"lines", "failed"}
  BY DEF ProcessLine, FailedLine, Parsed
<1>4. Faithful => pc' = "lines" /\ ReadSoFar'
  <2> SUFFICES ASSUME Faithful PROVE pc' = "lines" /\ ReadSoFar'
    OBVIOUS
  <2>1. ReadSoFar /\ whole \in Seq(LinesFor(Sign, Style)) /\ lines = whole /\ at < Len(whole)
    BY <1>3 DEF ExportInv, Parsed, ProcessLine
  <2> DEFINE l == whole[at + 1]
             n == at + 1
             c == Collected(Entries, EntryLines)
  <2>2. at' = n /\ n \in 1..Len(whole) /\ n \in 0..Len(whole) /\ at \in 0..Len(whole) /\ Len(whole) \in Nat
    BY <2>1, WrittenLines DEF ReadSoFar, ProcessLine, NextLine
  <2>3. l \in LinesFor(Sign, Style) /\ n \in DOMAIN whole
    BY <2>1, <2>2, WrittenLines
  <2>4. l # BlankLine
    <3>1. l.first # "blank"
      BY <2>3 DEF LinesFor
    <3>2. QED  BY <3>1 DEF BlankLine
  <2>5. c[n] = IF n \in EntryLines THEN Append(c[at], Entries[n]) ELSE c[at]
    <3>1. Entries \in Seq([line : Nat, style : {"none", "sfv", "hex"}]) /\ Len(Entries) = Len(whole)
      BY <2>1, WrittenLines
    <3>2. \A k \in 0..Len(Entries) : k + 1 \in 0..Len(Entries) =>
            c[k + 1] = IF k + 1 \in EntryLines THEN Append(c[k], Entries[k + 1]) ELSE c[k]
      BY <3>1, CollectedSteps
    <3> HIDE DEF c
    <3>3. QED  BY <2>2, <3>1, <3>2
  <2>6. Entries[n] = Entry(n, l.style)
    BY <2>1, <2>2, WrittenLines
  <2>7. files = c[at] /\ comment \in {"unknown", Sign} /\ hash \in {"unknown", Style}
    BY <2>1 DEF ReadSoFar
  <2>8. Sign \in {"sharp", "semicolon"} /\ Style \in {"sfv", "hex"}
    BY DEF Sign, Style
  <2> HIDE DEF c, l
  <2>9. CASE l.style = "none"
    <3>1. l.first = Sign /\ IsComment(l)
      BY <2>3, <2>7, <2>8, <2>9 DEF LinesFor, ReadAs, IsComment
    <3>2. n \notin EntryLines
      BY <2>9 DEF EntryLines, l
    <3>3. lines[at + 1] = l
      BY <2>1 DEF l
    <3>4. pc' = pc /\ comment' = l.first /\ hash' = hash /\ files' = files
      BY <2>4, <3>1, <3>3 DEF ProcessLine
    <3>5. files' = c[n]
      BY <2>5, <2>7, <3>2, <3>4
    <3>6. QED  BY <1>2, <1>3, <2>2, <2>7, <3>1, <3>4, <3>5, <1>1 DEF ReadSoFar, c
  <2>10. CASE l.style # "none"
    <3>1. ~IsComment(l) /\ l.style = Style
      BY <2>3, <2>10 DEF LinesFor, ReadAs, IsComment
    <3>2. StyleOf(l) = Style
      BY <2>3, <2>7, <2>8, <2>10 DEF LinesFor, ReadAs, StyleOf, Possible
    <3>3. n \in EntryLines
      BY <2>3, <2>10 DEF EntryLines, l
    <3>4. lines[at + 1] = l
      BY <2>1 DEF l
    <3>5. pc' = pc /\ comment' = comment /\ hash' = Style /\ files' = Append(files, Entry(n, Style))
      BY <2>4, <2>8, <3>1, <3>2, <3>4 DEF ProcessLine
    <3>6. files' = c[n]
      BY <2>5, <2>6, <2>7, <3>1, <3>3, <3>5
    <3>7. QED  BY <1>1, <1>2, <1>3, <2>2, <2>7, <3>5, <3>6 DEF ReadSoFar, c
  <2>11. QED  BY <2>9, <2>10
<1>5. ReadsBack'
  BY <1>3 DEF ReadsBack, Read
<1>6. QED  BY <1>1, <1>2, <1>3, <1>4, <1>5 DEF ExportInv, Parsed

LEMMA UnmapExport ==
  ASSUME ExportInv, Unmap, UNCHANGED exportVars
  PROVE  ExportInv'
<1>1. job' = job /\ whole' = whole /\ saved' = saved /\ pc' = "returned" /\ pc \in {"failed", "lines"}
  BY DEF exportVars, Unmap, Return
<1>2. /\ (JobTypeOK' <=> JobTypeOK) /\ (Faithful' <=> Faithful) /\ Sign' = Sign /\ Style' = Style
      /\ LinesFor(Sign, Style)' = LinesFor(Sign, Style) /\ Expected' = Expected
  BY <1>1, ExportStays DEF LinesFor, ReadAs
<1>3. Faithful => output' = Expected
  <2> SUFFICES ASSUME Faithful PROVE output' = Expected
    OBVIOUS
  <2>1. pc = "lines" /\ pc \in Parsed
    BY <1>1 DEF ExportInv, Parsed
  <2>2. ReadSoFar /\ whole \in Seq(LinesFor(Sign, Style)) /\ lines = whole /\ at >= Len(whole)
    BY <2>1 DEF ExportInv, Unmap
  <2> DEFINE N == Len(whole)
             c == Collected(Entries, EntryLines)
  <2>3. /\ N \in Nat /\ at = N /\ files = c[N] /\ Expected = c[N]
        /\ Entries \in Seq([line : Nat, style : {"none", "sfv", "hex"}]) /\ Len(Entries) = N
        /\ \A i \in 1..N : Entries[i] = Entry(i, whole[i].style) /\ whole[i] \in LinesFor(Sign, Style)
    BY <2>2, WrittenLines DEF ReadSoFar
  <2>4. TakenFrom(c[N], Entries, EntryLines, N)
    BY <2>3, CollectedMeans
  <2> HIDE DEF c
  <2>5. PICK from \in [1..Len(c[N]) -> EntryLines \cap 1..N] :
          \A i \in 1..Len(c[N]) : c[N][i] = Entries[from[i]]
    BY <2>4 DEF TakenFrom
  <2>6. DOMAIN files = 1..Len(c[N])
    BY <2>3, <2>4 DEF TakenFrom
  <2>7. ASSUME NEW i \in DOMAIN files PROVE lines[files[i].line].readable
    <3>1. from[i] \in 1..N /\ files[i] = Entry(from[i], whole[from[i]].style)
      BY <2>3, <2>5, <2>6, <2>7
    <3>2. files[i].line = from[i]
      BY <3>1 DEF Entry
    <3>3. QED  BY <2>2, <2>3, <3>1, <3>2 DEF LinesFor, ReadAs
  <2>8. Readable
    BY <2>7 DEF Readable
  <2>9. QED  BY <2>1, <2>3, <2>8 DEF Unmap
<1>4. ReadsBack'
  BY <1>2, <1>3 DEF ReadsBack, Faithful
<1>5. Faithful => whole \in Seq(LinesFor(Sign, Style))
  BY <1>1 DEF ExportInv
<1>6. QED  BY <1>1, <1>2, <1>4, <1>5 DEF ExportInv, Parsed

(* What the program makes of a checksum file it has written: the files and *)
(* hashes that were exported, in their order (Exporter, TryParseSumFile).  *)
THEOREM ReadsBackAlways == ExportSpec => []ReadsBack
<1>1. ExportInv /\ [ExportNext]_allVars => ExportInv'
  <2>1. SUFFICES ASSUME ExportInv, [ExportNext]_allVars PROVE ExportInv'
    OBVIOUS
  <2>2. CASE UNCHANGED allVars
    <3>1. UNCHANGED <<job, saved, whole, size, lines, pc, comment, hash, at, files, output, error>>
      BY <2>2 DEF allVars, exportVars, sumVars, fileVars, parserVars
    <3>2. /\ (JobTypeOK' <=> JobTypeOK) /\ (Faithful' <=> Faithful) /\ Sign' = Sign /\ Style' = Style
          /\ LinesFor(Sign, Style)' = LinesFor(Sign, Style)
          /\ Entries' = Entries /\ EntryLines' = EntryLines /\ Expected' = Expected
      BY <3>1, ExportStays DEF LinesFor, ReadAs
    <3>3. (ReadSoFar' <=> ReadSoFar) /\ (ReadsBack' <=> ReadsBack)
      BY <3>1, <3>2 DEF ReadSoFar, ReadsBack, Read, Faithful
    <3>4. QED  BY <2>1, <3>1, <3>2, <3>3 DEF ExportInv, Parsed
  <2>3. CASE ReadBack
    BY <2>1, <2>3, OpeningExport, LineExport, UnmapExport DEF ReadBack, SumFileNext
  <2>4. QED  BY <2>1, <2>2, <2>3, SavingKeeps DEF ExportNext
<1>2. ExportInv => ReadsBack
  BY DEF ExportInv
<1>3. QED  BY <1>1, <1>2, ExportInitial, PTL DEF ExportSpec
=============================================================================

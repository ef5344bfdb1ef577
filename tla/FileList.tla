------------------------------ MODULE FileList ------------------------------
(***************************************************************************)
(* ProcessEverything (path.cpp): from the files and folders the user chose *)
(* to the files to hash, each with the hashes it is expected to have.  A   *)
(* path is the sequence of its components; a component may be the short    *)
(* name of another.  GetFullPathNameW changes none of these paths.         *)
(***************************************************************************)
EXTENDS Integers, Sequences, SequencesExt, FiniteSets, FiniteSetsExt, Selection

CONSTANTS
  Plain, Dirs, Links,  \* the files, the folders, and those that are reparse points
  LongName,            \* the long name of each component
  Sums,                \* what TryParseSumFile finds in each file: names and hashes
  TypeOf,              \* the algorithm of each file's extension, -1 for none
  Beside,              \* the files named like a path plus an extension of an algorithm
  Algorithms,          \* indexes of the algorithms
  ChosenLists,         \* lists of files the user may choose
  Selections           \* sets of algorithms that may be enabled

NotSumfile == -2
UnknownSumfile == -1

ASSUME FileListAssumption ==
  /\ Plain \cap Dirs = {} /\ Links \subseteq Dirs
  /\ IsFiniteSet(Plain) /\ IsFiniteSet(Dirs) /\ Algorithms \subseteq Nat
  /\ \A p \in Plain : TypeOf[p] \in Algorithms \cup {UnknownSumfile}
  /\ \A p \in DOMAIN Beside, a \in Algorithms : Beside[p][a] \subseteq Plain
  /\ \A p \in Plain : /\ Sums[p] \in Seq(ToSet(Sums[p]))
                     /\ \A e \in ToSet(Sums[p]) : e.name \in Seq(DOMAIN LongName)
  /\ ChosenLists \subseteq Seq(Seq(DOMAIN LongName) \ {<<>>}) \ {<<>>}

(* Files and folders are given by their long names, and what is above one  *)
(* is a folder.                                                            *)
ASSUME FileSystemAssumption ==
  /\ LongName \in [DOMAIN LongName -> DOMAIN LongName]
  /\ \A p \in Plain \cup Dirs :
       /\ p \in Seq(DOMAIN LongName) \ {<<>>}
       /\ \A i \in DOMAIN p : LongName[p[i]] = p[i]
       /\ \A n \in 1..(Len(p) - 1) : SubSeq(p, 1, n) \in Dirs

VARIABLES
  list,      \* the list that is iterated while it grows
  handled,   \* how many of its members have been handled
  entries,   \* the lines of the checksum file that are not yet added
  listed,    \* ProcessedFileList::files
  base,      \* base_path
  type,      \* sumfile_type
  settings,  \* hash_sumfile_too, look_for_sumfiles, the enabled algorithms
  stage, chosen  \* the next step; the choice, which nothing changes

listVars == <<list, handled, entries, listed, base, type, settings, stage, chosen>>

FileListInit ==
  /\ chosen \in ChosenLists /\ list = chosen
  /\ handled = 0
  /\ entries = <<>>
  /\ listed = <<>>
  /\ base = <<>>
  /\ type = NotSumfile
  /\ settings \in [hash_sumfile_too : BOOLEAN, look_for_sumfiles : BOOLEAN,
                   algorithms : Selections]
  /\ stage = "sumfile"

Existing == Plain \cup Dirs
Long(path) == [i \in DOMAIN path |-> LongName[path[i]]]
Parent(path) == Front(path)

(* NormalizePath: the longest part that exists is un-shortened.            *)
NormalizePath(path) ==
  LET n == Max({k \in 0..Len(path) : k = 0 \/ Long(SubSeq(path, 1, k)) \in Existing})
  IN  Long(SubSeq(path, 1, n)) \o SubSeq(path, n + 1, Len(path))

NormalizeBase(path) == NormalizePath(path)

(* The common beginning of all paths, cut at its last backslash.           *)
CommonFolder(paths) ==
  LET shared(n) == \A p \in ToSet(paths) :
        n < Len(p) /\ SubSeq(p, 1, n) = SubSeq(paths[1], 1, n)
  IN  SubSeq(paths[1], 1, Max({n \in 0..Len(paths[1]) : n = 0 \/ shared(n)}))

(* A single file may be a checksum file.  If it cannot be read or names no *)
(* file, it is none.                                                       *)
ReadSumfile ==
  /\ stage = "sumfile"
  /\ stage' = "entries"
  /\ base' = NormalizeBase(IF Len(list) = 1 THEN Parent(list[1]) ELSE CommonFolder(list))
  /\ \/ UNCHANGED <<entries, type, list>>
     \/ /\ Len(list) = 1
        /\ LET path == NormalizePath(list[1])
           IN  /\ path \in Plain
               /\ \E line \in ToSet(Sums[path]) : line.name # <<>>
               /\ entries' = Sums[path]
               /\ type' = TypeOf[path]
        /\ list' = IF settings.hash_sumfile_too THEN list ELSE <<>>
  /\ UNCHANGED <<handled, listed, settings, chosen>>

Relative(path) ==
  IF IsPrefix(base, path) THEN SubSeq(path, Len(base) + 1, Len(path)) ELSE path

Put(path, file) ==
  [p \in DOMAIN listed \cup {path} |-> IF p = path THEN file ELSE listed[p]]

(* The key under which an entry is stored, below the folder of the         *)
(* checksum file: entries that name the same file in other words are       *)
(* merged.                                                                 *)
EntryKey(name) == NormalizePath(Parent(chosen[1]) \o name)

(* A line without a name counts for nothing in a main checksum file.       *)
AddEntry ==
  /\ stage = "entries" /\ entries # <<>>
  /\ LET line == Head(entries)
         p == EntryKey(line.name)
     IN  listed' = IF line.name = <<>> THEN listed
                  ELSE IF p \in DOMAIN listed
                  THEN [listed EXCEPT ![p].expected = Append(@, line.hash)]
                  ELSE Put(p, [relative |-> Relative(p), expected |-> <<line.hash>>])
  /\ entries' = Tail(entries)
  /\ UNCHANGED <<list, handled, base, type, settings, stage, chosen>>

EntriesAdded ==
  /\ stage = "entries" /\ entries = <<>>
  /\ stage' = "list"
  /\ UNCHANGED <<list, handled, entries, listed, base, type, settings, chosen>>

(* Look for checksum files beside a file, unless one is being processed.   *)
Looks_Always == settings.look_for_sumfiles
Looks == type = NotSumfile /\ settings.look_for_sumfiles

HashesOf(lines) == [i \in DOMAIN lines |-> lines[i].hash]
InSomeOrder(set) == FoldSet(LAMBDA x, seq : Append(seq, x), <<>>, set)

HashesBeside(path) ==
  IF ~Looks \/ path \notin DOMAIN Beside THEN <<>>
  ELSE LET found == UNION {Beside[path][a] : a \in settings.algorithms}
           order == InSomeOrder(found)
           all == FlattenSeq([i \in DOMAIN order |-> Sums[order[i]]])
       IN  HashesOf(all)

AddFile(path) ==
  listed' = IF path \in DOMAIN listed THEN listed
            ELSE Put(path, [relative |-> Relative(path), expected |-> HashesBeside(path)])

(* What FindFirstFileW and FindNextFileW give, without reparse points.     *)
Children_Followed(dir) == {p \in Existing : Len(p) = Len(dir) + 1 /\ IsPrefix(dir, p)}
Children(dir) == {p \in Existing \ Links : Len(p) = Len(dir) + 1 /\ IsPrefix(dir, p)}

HandleFile ==
  /\ stage = "list" /\ handled < Len(list)
  /\ NormalizePath(list[handled + 1]) \notin Dirs
  /\ AddFile(NormalizePath(list[handled + 1]))
  /\ handled' = handled + 1
  /\ UNCHANGED <<list, entries, base, type, settings, stage, chosen>>

ListFolder ==
  /\ stage = "list" /\ handled < Len(list)
  /\ NormalizePath(list[handled + 1]) \in Dirs
  /\ list' = list \o InSomeOrder(Children(NormalizePath(list[handled + 1])))
  /\ handled' = handled + 1
  /\ UNCHANGED <<entries, listed, base, type, settings, stage, chosen>>

(* Listing ends with an error, after some of the children were listed: the *)
(* folder is handled as a file, so that an error will be displayed.        *)
ListFolderFails ==
  /\ stage = "list" /\ handled < Len(list)
  /\ LET dir == NormalizePath(list[handled + 1]) IN
       /\ dir \in Dirs
       /\ \E some \in SUBSET Children(dir) : list' = list \o InSomeOrder(some)
       /\ AddFile(dir)
  /\ handled' = handled + 1
  /\ UNCHANGED <<entries, base, type, settings, stage, chosen>>

(* Coordinator::AddFiles enables the algorithm of the checksum file.       *)
ListDone ==
  /\ stage = "list" /\ handled = Len(list)
  /\ stage' = "done"
  /\ settings' = IF type \in Algorithms
                 THEN [settings EXCEPT !.algorithms = @ \cup {type}] ELSE settings
  /\ UNCHANGED <<list, handled, entries, listed, base, type, chosen>>

FileListNext == \/ ReadSumfile \/ AddEntry \/ EntriesAdded
                \/ HandleFile \/ ListFolder \/ ListFolderFails \/ ListDone
FileListSpec == FileListInit /\ [][FileListNext]_listVars
-----------------------------------------------------------------------------
Done == stage = "done"
ChosenPaths == {NormalizePath(p) : p \in ToSet(chosen)}

(* The file is below one that was chosen, and not behind a reparse point.  *)
Below(top, path) ==
  /\ IsPrefix(top, path)
  /\ \A n \in (Len(top) + 1)..Len(path) : SubSeq(path, 1, n) \notin Links

(* What is hashed is what was chosen: every file below the choice, unless *)
(* a folder above it could not be listed (and stands in the list for that) *)
(* or it is the checksum file itself; and nothing else but what the        *)
(* checksum file names.  A reparse point is not followed, for it could     *)
(* lead anywhere, back above itself too.  What was chosen is shown and     *)
(* exported relative to the base path, also if it was chosen by short      *)
(* names.                                                                  *)
ChoiceListed ==
  /\ Done => \A top \in ChosenPaths, p \in Plain : Below(top, p) =>
       \/ p \in DOMAIN listed
       \/ \E n \in Len(top)..Len(p) : SubSeq(p, 1, n) \in Dirs \cap DOMAIN listed
       \/ type # NotSumfile /\ ~settings.hash_sumfile_too /\ p \in ChosenPaths
  /\ \A p \in DOMAIN listed :
       (\E top \in ChosenPaths : Below(top, p)) \/ type # NotSumfile
  /\ Done => \A p \in DOMAIN listed : (\E top \in ChosenPaths : Below(top, p)) =>
       base \o listed[p].relative = p

(* The places of the lines of a checksum file that name a file.           *)
Naming(sumfile, path) ==
  {i \in DOMAIN Sums[sumfile] :
     /\ Sums[sumfile][i].name # <<>>
     /\ NormalizePath(Parent(sumfile) \o Sums[sumfile][i].name) = path}

(* "If we're already processing a sumfile, don't look for one for          *)
(* security": what a file named in a checksum file is expected to have is  *)
(* exactly what all lines say that name the file, in their order, in       *)
(* whatever words, and other files expect nothing.                         *)
SumfileAloneCounts ==
  Done /\ type # NotSumfile =>
    LET top == CHOOSE p \in ChosenPaths : TRUE
    IN  \A p \in DOMAIN listed :
          listed[p].expected = HashesOf(Selected(Sums[top], Naming(top, p)))
=============================================================================

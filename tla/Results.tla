------------------------------ MODULE Results -------------------------------
(***************************************************************************)
(* The dialog (MainDialog.cpp) and the results it shows: Finish gives each *)
(* task its digests and its match state on a thread of the pool, the       *)
(* coordinator sends ALL_FILES_FINISHED, and the thread of the window      *)
(* lists, counts and colours the files, keeps the status line with its     *)
(* timer, and checks a hash against all results.                           *)
(*                                                                         *)
(* Files are counted one by one as they are started, so the message may    *)
(* come early and come again (ProcessFiles), and the handler has no guard: *)
(* a listing may find files that are not finished.                         *)
(***************************************************************************)
EXTENDS Naturals, Integers, FiniteSets, FiniteSetsExt

CONSTANTS
  FileCount,   \* the coordinator's files are 1..FileCount, in list order
  AlgCount,    \* LegacyHashAlgorithm::k_count
  Secure,      \* the indexes of the algorithms with IsSecure()
  HashedAlgs,  \* the indexes of the algorithms the tasks have contexts for
  Hashes,      \* digests
  Expectations, \* the sets of hashes a file may be expected to have
  NoHash,      \* an empty std::vector
  Typed,       \* bound: the readings that are typed or put in the clipboard
  MaxCopies    \* bound: how often the user copies something

Files == 1..FileCount
Algs == 0..(AlgCount - 1)
None == -1
Mismatch == -2
Readings == {"canonical", "strict", "embedded"}   \* the ways to write a hash

ASSUME ResultsAssumption ==
  /\ FileCount \in Nat /\ AlgCount \in Nat \ {0}
  /\ Secure \subseteq Algs /\ HashedAlgs \subseteq Algs
  /\ NoHash \notin Hashes
  /\ Expectations \subseteq SUBSET Hashes
  /\ Typed \subseteq Readings

VARIABLES
  submitted,   \* the files ProcessFiles has counted and started, 1..submitted
  digest,      \* FileHashTask::_hash_results
  expected,    \* FileInfo::expected_hashes
  state,       \* "hashing", "finishing", "hashed"; "erred" (_error), "failed"
  turn,        \* the algorithms that Finish is done with
  match,       \* FileHashTask::_match_state
  messages,    \* ALL_FILES_FINISHED sent and not yet handled
  rows,        \* the items of the list view, each with the listing it is from
  counts,      \* _count_match, _count_mismatch, _count_unknown, _count_error
  listed,      \* how often the files were listed
  early,       \* history: the files listed unfinished, and as what
  status,      \* the text of the status line and _temporary_status
  timer,       \* the status timer was set
  edit,        \* the text in the "check against" box
  verdict,     \* the result shown beside it and the colour of the box
  checked,     \* history: the files that were finished when it was found
  settings,    \* checkagainst_strict and checkagainst_autoformat
  copies       \* how often the user has copied something

taskVars == <<submitted, digest, expected, state, turn, match>>
listVars == <<rows, counts, listed, early>>
statusVars == <<status, timer>>
editVars == <<edit, verdict, checked>>
resultVars == <<taskVars, messages, listVars, statusVars, editVars, settings, copies>>

NoText == [hash |-> NoHash, as |-> "strict"]
Given == [hash : Hashes, as : Typed] \cup {NoText}
Unchecked == [colour |-> "Unknown", file |-> 0]
finished == listed # 0   \* _finished

(* ProcessFiles sends the message at once if there is no file.             *)
ResultsInit ==
  /\ submitted = 0
  /\ digest = [f \in Files |-> [a \in Algs |-> NoHash]]
  /\ expected \in [Files -> Expectations]
  /\ state = [f \in Files |-> "hashing"]
  /\ turn = [f \in Files |-> 0]
  /\ match = [f \in Files |-> 0]
  /\ messages = IF FileCount = 0 THEN 1 ELSE 0
  /\ rows = {}
  /\ counts = [match |-> 0, mismatch |-> 0, unknown |-> 0, error |-> 0]
  /\ listed = 0 /\ early = {}
  /\ status = [text |-> "processing", temporary |-> FALSE]
  /\ timer = FALSE
  /\ edit = NoText
  /\ verdict = Unchecked
  /\ checked = {}
  /\ settings \in [strict : BOOLEAN, autoformat : BOOLEAN]
  /\ copies = 0
-----------------------------------------------------------------------------
(* The tasks.  What follows leaves the dialog alone.                       *)
DialogUnchanged == UNCHANGED <<listVars, statusVars, editVars, settings, copies>>

(* The loop of ProcessFiles, on the thread of the window.                  *)
ProcessFile ==
  /\ submitted < FileCount
  /\ submitted' = submitted + 1
  /\ UNCHANGED <<digest, expected, state, turn, match, messages>> /\ DialogUnchanged

(* The constructor that cannot open the file, or a thread that cannot read *)
(* or finds it cancelled.                                                  *)
SetError(f) ==
  /\ state[f] = "hashing"
  /\ state' = [state EXCEPT ![f] = "erred"]
  /\ UNCHANGED <<submitted, digest, expected, turn, match, messages>> /\ DialogUnchanged

(* Finish, of a file without an error: its match before any result.        *)
BeginFinish(f) ==
  /\ f <= submitted /\ state[f] = "hashing"
  /\ state' = [state EXCEPT ![f] = "finishing"]
  /\ match' = [match EXCEPT ![f] = IF expected[f] = {} THEN None ELSE Mismatch]
  /\ UNCHANGED <<submitted, digest, expected, turn, messages>> /\ DialogUnchanged

(* A match with a secure algorithm trumps one with an insecure algorithm.  *)
Trumps_Never(old, a) == old = Mismatch
Trumps(old, a) == old = Mismatch \/ old \notin Secure

MatchWith(old, a, hash, hashes) ==
  IF hash \in hashes /\ old # None /\ Trumps(old, a) THEN a ELSE old

(* A turn of its loop over the algorithms, in the order of their indexes.  *)
FinishAlgorithm(f) == \E hash \in Hashes \cup {NoHash} :
  /\ state[f] = "finishing" /\ turn[f] < AlgCount
  /\ hash = NoHash <=> turn[f] \notin HashedAlgs
  /\ digest' = [digest EXCEPT ![f][turn[f]] = hash]
  /\ match' = [match EXCEPT ![f] = MatchWith(match[f], turn[f], hash, expected[f])]
  /\ turn' = [turn EXCEPT ![f] = turn[f] + 1]
  /\ UNCHANGED <<submitted, expected, state, messages>> /\ DialogUnchanged

Done(f) == state[f] \in {"hashed", "failed"}
AllFilesDone == \A f \in Files : Done(f)

(* FileCompletionCallback: when no file that was started is left.          *)
Complete(f) ==
  /\ f <= submitted
  /\ \/ state[f] = "finishing" /\ turn[f] = AlgCount /\ state' = [state EXCEPT ![f] = "hashed"]
     \/ state[f] = "erred" /\ state' = [state EXCEPT ![f] = "failed"]
  /\ messages' = IF \A g \in 1..submitted : g = f \/ Done(g) THEN messages + 1 ELSE messages
  /\ UNCHANGED <<submitted, digest, expected, turn, match>> /\ DialogUnchanged
-----------------------------------------------------------------------------
(* The rows and their colours.                                             *)

HashRow(f, a, n) == [kind |-> "hash", file |-> f, alg |-> a, listing |-> n]
ErrorRow(f, n) == [kind |-> "error", file |-> f, alg |-> 0, listing |-> n]

HasError(f) == state[f] \in {"erred", "failed"}

HashColorTypeForFile_AllRows(f, a) ==
  IF HasError(f) THEN "Error"
  ELSE CASE match[f] = Mismatch    -> "Mismatch"
         [] match[f] = None        -> "Unknown"
         [] match[f] \in Secure    -> "Match"
         [] OTHER                  -> "Insecure"

HashColorTypeForFile(f, a) ==
  IF HasError(f) THEN "Error"
  ELSE CASE match[f] = Mismatch              -> "Mismatch"
         [] match[f] # None /\ match[f] = a -> IF a \in Secure THEN "Match" ELSE "Insecure"
         [] OTHER                            -> "Unknown"

(* FileFinished: the rows and the count of one file.  One that is not      *)
(* finished has the results it has so far, and a match state of 0 at first.*)
RowsOf(f, n) ==
  IF HasError(f) THEN {ErrorRow(f, n)}
  ELSE {HashRow(f, a, n) : a \in {b \in Algs : digest[f][b] # NoHash}}

Count(f) ==
  IF HasError(f) THEN "error"
  ELSE CASE match[f] = None      -> "unknown"
         [] match[f] = Mismatch  -> "mismatch"
         [] OTHER                -> "match"
-----------------------------------------------------------------------------
(* The box that checks a hash.                                             *)

(* HashStringToBytes or FindHashInString, as checkagainst_strict says.     *)
Found(text, strict) ==
  IF strict /\ text.as = "embedded" THEN NoHash ELSE text.hash

With(f, hash) == {a \in Algs : digest[f][a] = hash}
ColourOf(f, hash) == IF Min(With(f, hash)) \in Secure THEN "Match" ELSE "Insecure"

(* A variant that does not leave the loop over the files.                  *)
Check_LastFile(hash) ==
  LET hits == {f \in Files : With(f, hash) # {}} IN
  CASE hash = NoHash -> Unchecked
    [] hash # NoHash /\ hits = {} -> [colour |-> "Mismatch", file |-> 0]
    [] OTHER         -> [colour |-> ColourOf(Max(hits), hash), file |-> Max(hits)]

(* The first file, and in it the first algorithm, with that result.        *)
Check(hash) ==
  LET hits == {f \in Files : With(f, hash) # {}} IN
  CASE hash = NoHash -> Unchecked
    [] hash # NoHash /\ hits = {} -> [colour |-> "Mismatch", file |-> 0]
    [] OTHER         -> [colour |-> ColourOf(Min(hits), hash), file |-> Min(hits)]

(* OnHashEditChanged.  Formatting the text calls it again, and             *)
(* _inhibit_reformat keeps that call from formatting; the outer call has   *)
(* the last word on the result.                                            *)
HashEditChanged(text) ==
  LET hash == Found(text, settings.strict) IN
  /\ edit' = IF hash # NoHash /\ settings.autoformat
             THEN [hash |-> hash, as |-> "canonical"] ELSE text
  /\ verdict' = Check(hash)
  /\ checked' = {f \in Files : Done(f)}
-----------------------------------------------------------------------------
(* UpdateDefaultStatus and SetTempStatus.                                  *)
UpdateDefaultStatus_NeverForced(force, done) ==
  status' = IF status.temporary THEN status
            ELSE [text |-> IF done THEN "done" ELSE "processing", temporary |-> FALSE]
UpdateDefaultStatus_StillTemporary(force, done) ==
  status' = [text |-> IF done THEN "done" ELSE "processing", temporary |-> status.temporary]
UpdateDefaultStatus(force, done) ==
  status' = IF status.temporary /\ ~force THEN status
            ELSE [text |-> IF done THEN "done" ELSE "processing", temporary |-> FALSE]

SetTempStatus ==
  /\ status' = [text |-> "copied", temporary |-> TRUE]
  /\ timer' = TRUE

(* OnInitDialog, which processes the files, has left the thread.           *)
Pumping == submitted = FileCount

(* OnAllFilesFinished, for each message, without a guard of its own.  A    *)
(* message that the thread of the window sends itself, of a file it could  *)
(* not start, it handles at once, before it goes on to the next.  Threads  *)
(* may finish files while it runs: what it reads of a file that is         *)
(* finished stays as it is, and of another the step takes one of the       *)
(* possible moments.  A hash in the clipboard, which the user or any       *)
(* program may have filled, is checked at once.                            *)
OnAllFilesFinished == \E clip \in Given :
  /\ messages > 0
  /\ Pumping \/ state[submitted] = "failed"
  /\ messages' = messages - 1
  /\ listed' = listed + 1
  /\ rows' = rows \cup UNION {RowsOf(f, listed + 1) : f \in Files}
  /\ counts' = [c \in DOMAIN counts |->
                  counts[c] + Cardinality({f \in Files : Count(f) = c})]
  /\ early' = early \cup {[listing |-> listed + 1, file |-> f, as |-> Count(f)] :
                            f \in {g \in Files : ~Done(g)}}
  /\ UpdateDefaultStatus(FALSE, TRUE)
  /\ IF clip.hash # NoHash THEN HashEditChanged(clip) ELSE UNCHANGED editVars
  /\ UNCHANGED <<taskVars, timer, settings, copies>>

OnStatusUpdateTimer ==
  /\ timer /\ Pumping
  /\ UpdateDefaultStatus(TRUE, finished)
  /\ UNCHANGED <<taskVars, messages, listVars, timer, editVars, settings, copies>>

(* ListDoubleClick and ListPopupMenu: a hash, a name, a line or all lines  *)
(* go to the clipboard; "copy line" leaves before the status is set.       *)
Copy ==
  /\ Pumping /\ copies < MaxCopies /\ rows # {}
  /\ SetTempStatus
  /\ copies' = copies + 1
  /\ UNCHANGED <<taskVars, messages, listVars, editVars, settings>>

(* The box is enabled with the first listing.                              *)
TypeText(text) ==
  /\ Pumping /\ finished
  /\ HashEditChanged(text)
  /\ UNCHANGED <<taskVars, messages, listVars, statusVars, settings, copies>>

(* The settings dialog.                                                    *)
ChangeSettings(k) ==
  /\ Pumping /\ finished
  /\ settings' = [settings EXCEPT ![k] = ~@]
  /\ UNCHANGED <<taskVars, messages, listVars, statusVars, editVars, copies>>
-----------------------------------------------------------------------------
TaskStep == \E f \in Files :
  SetError(f) \/ BeginFinish(f) \/ FinishAlgorithm(f) \/ Complete(f)

(* The part that is about the list, and the part about box and status.     *)
ListNext == ProcessFile \/ TaskStep \/ OnAllFilesFinished
BoxNext ==
  \/ ListNext
  \/ OnStatusUpdateTimer
  \/ Copy
  \/ \E text \in Given : TypeText(text)
  \/ \E k \in {"strict", "autoformat"} : ChangeSettings(k)
ResultsNext == BoxNext

(* The system delivers the timer's message as long as the timer is set.    *)
ResultsSpec == ResultsInit /\ [][ResultsNext]_resultVars /\ WF_resultVars(OnStatusUpdateTimer)
-----------------------------------------------------------------------------
(* Finish: a file that expects nothing has no match, one whose results are *)
(* all unexpected has a mismatch, and otherwise the state names an         *)
(* algorithm whose result is expected, a secure one if there is any        *)
(* ("secure algorithms trump insecure ones").                              *)
SecureTrumps ==
  \A f \in Files : state[f] = "hashed" =>
    LET hits == {a \in Algs : digest[f][a] \in expected[f]} IN
    CASE expected[f] = {}              -> match[f] = None
      [] expected[f] # {} /\ hits = {} -> match[f] = Mismatch
      [] hits # {} -> /\ match[f] \in hits
                      /\ hits \cap Secure # {} => match[f] \in Secure

(* Every listing adds each file to the rows and to the summary again       *)
(* (FileFinished).  What the summary counts beyond the files that were     *)
(* listed unfinished, as whatever they were taken for then, is what the    *)
(* rows of that listing show today: a match is a file with one row in a    *)
(* match colour, a mismatch or an unknown file one whose rows are all that.*)
(* And the last listing found every file finished.                         *)
RowsAgreeWithCounts ==
  LET Guessed(c) == Cardinality({e \in early : e.as = c})
      Listed == {x \in (1..listed) \X Files :
                   \A e \in early : <<e.listing, e.file>> # x}
      Coloured(x, cs) == {row \in rows : /\ row.listing = x[1] /\ row.file = x[2]
                                         /\ HashColorTypeForFile(x[2], row.alg) \in cs}
      Wholly(c) == {x \in Listed : Cardinality(Coloured(x, {c})) = Cardinality(HashedAlgs)}
  IN  /\ counts.match = Guessed("match")
           + Cardinality({x \in Listed : Cardinality(Coloured(x, {"Match", "Insecure"})) = 1})
      /\ counts.error = Guessed("error") + Cardinality({x \in Listed : Coloured(x, {"Error"}) # {}})
      /\ HashedAlgs # {} =>
           /\ counts.mismatch = Guessed("mismatch") + Cardinality(Wholly("Mismatch"))
           /\ counts.unknown = Guessed("unknown") + Cardinality(Wholly("Unknown"))
      /\ AllFilesDone /\ messages = 0 => finished /\ {listed} \X Files \subseteq Listed

(* The result beside the box is that of the text in the box, under one of  *)
(* the two ways to read it, although the text was formatted, taken from    *)
(* the clipboard before the user could see it, or typed while files were   *)
(* still hashed: a file it names has that hash, in the colour of its first *)
(* algorithm that has, whatever it computed since; and no file that was    *)
(* finished at that moment, up to the one named, was passed over.          *)
VerdictOfText ==
  \E strict \in BOOLEAN :
    LET hash == Found(edit, strict) IN
    IF hash = NoHash THEN verdict = Unchecked
    ELSE /\ \A f \in checked : With(f, hash) # {} => verdict.file \in 1..f
         /\ \/ verdict = [colour |-> "Mismatch", file |-> 0]
            \/ /\ verdict.file \in Files /\ With(verdict.file, hash) # {}
               /\ verdict.colour = ColourOf(verdict.file, hash)

(* The status line is not temporary exactly when it shows whether the      *)
(* files were listed: neither a copy, nor the late timer, nor a second     *)
(* listing leaves a wrong text behind.                                     *)
StatusShown ==
  IF status.temporary THEN status.text = "copied" /\ timer
  ELSE status.text = IF finished THEN "done" ELSE "processing"

(* The message that something was copied goes away again.                  *)
CopiedGoesAway == status.temporary ~> ~status.temporary
=============================================================================

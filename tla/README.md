# A verification of OpenHashTab

OpenHashTab adds a property page, a context menu entry and a `rundll32` window
that hash files with up to 31 algorithms.  This directory holds TLA+ modules
that model it, the TLC configurations that check them, and proofs for TLAPS: the
hashing pipeline, which runs concurrently, first and in the most detail; then the
dialog and its settings, the files that are read and written, the network, and
the parts of the library of algorithms that have control of their own.  Paths below
are relative to `src/OpenHashTab/OpenHashTab/` unless they begin with `src/`.

To repeat the checks, in this directory:

    tlc -config contention.cfg MCHashPipeline   # and parallel, windows, liveness, quiet,
                                                # early_listing, lost_wakeup, give_up_assert
    tlc -config dialog.cfg MCDialog             # and session_only
    tlc -config files.cfg MCFiles
    tlc -config library.cfg MCLibrary
    tlapm HashPipelineProofs.tla                # and LifetimeProofs, FoldProofs, DialogProofs,
                                                # SequentialProofs, LibraryProofs,
                                                # Crc64Proofs, Blake2spProofs

## 1. Inventory

### The system's parts

| part | state | operations |
|---|---|---|
| block budget (`FileHashTask.cpp:22-56`) | `s_allocations_remaining`, the committed blocks | try to allocate, reset, free |
| file hash task (`FileHashTask.cpp/.h`) | error, size, offset, block, two counters, cancelled flag, hash contexts | start, read a block, I/O completion, hash round, block finished, finish |
| read queue (`Queues.cpp`) | tasks that got no block or whose read could not start | enqueue, dequeue; one queue for the whole process |
| coordinator (`Coordinator.cpp/.h`) | window and its mutex, references, unfinished files, total and progressed size | register and unregister a window, add and process files, cancel, the two callbacks, destructor |
| dialog (`MainDialog.cpp`, `wnd.h`) | the list, counts of matches, the box for a hash, the status line, buttons | create, list the files, move the bar, cancel, close, sort, copy, check a hash, export, query |
| hosts (`OpenHashTab.cpp`, `Standalone.cpp`, `Coordinator.h:66-98`) | the coordinator's owner | property page release, context menu window, `rundll32` window |
| settings (`Settings.*`, `SettingsDialog.*`) | one copy per coordinator over the registry | load, store, set for the session, edit |
| file list and checksum files (`path.*`, `SumFileParser.*`) | the normalised files and their expected hashes | expand folders, look for checksum files, parse them |
| text conversions (`utl.*`, `base64.*`) | none | hexadecimal and base64 |
| exporter (`Exporter.*`) | none | write checksum files |
| network (`virustotal.*`, `https.*`, `updatecheck.cpp`) | the handles of one exchange | query, check for updates |
| algorithms (`src/Algorithms`, `src/OpenHashTab/LegacyAlgorithms`) | the table of algorithms; a context per algorithm and file | choose the library, make, update, finish, move |

### How they interact

A *coordinator* is made by its host and belongs to one window.  The user
interface thread of the window registers it, constructs a task per file and
starts the tasks one after another.  From then on the work is done by callbacks
on the Windows thread pool, which all windows of the process share:

    StartProcessing ── ReadBlockAsync ──(ReadFile)── OverlappedCompletionRoutine
                          │    ▲                              │
              no block:   │    │ next block                   │ k_count work items
            g_read_queue ◄┘    │                              ▼
                 │         FinishedBlock ◄── the last ── DoHashRound
                 └─ ProcessReadQueue, at the end of every callback

A task that ends calls back its coordinator, which counts it down under the
window's mutex and sends the window a message with the last one, and then drops
its reference.  Nothing but the two atomic counters `_hash_start_counter` and
`_hash_finish_counter` protects a task's members: the code relies on a task being
in one place at a time.  `ProcessReadQueue` takes tasks of *any* window.  The
destructor of a coordinator cancels its tasks, waits for them, and then waits for
all references.

### What is hard, and what makes it right

* *task*: work items run on any threads, in any order, while others are still
  being submitted; cancellation arrives at any moment; a read cannot be started or
  fails.  Right means: one owner at a time; each context gets every block once and in
  order; a file without an error has complete digests; errors stick.
* *budget*: it is decremented before it is tested, and may be negative for a
  moment.  Right means: nothing leaks, nothing is freed twice, the limit holds.
* *queue*: whoever ends a callback drains it.  Right means: everything in it is
  read in the end (it is not, see "Findings").
* *coordinator*: counters changed by many threads, messages sent under a lock, a
  destructor that may run beside the window.  Right means: the counters are
  exact, the last listing shows all files, nothing is used after it is freed, every
  wait ends.
* *settings*: several copies over one registry, values for one session only,
  results older than the settings that are used to show them.  Right means: what a
  window shows is what its tasks computed (not after an early listing, see
  "Findings"); only the user changes the store.
* *results*: the order in which a file's hashes are compared, listings that come while
  files are hashed and come again, counts and colours computed apart from each other,
  a status line with a timer.  Right means: a secure algorithm decides, what was counted of
  finished files agrees with their rows, the last listing is complete, a verdict is
  true of the file it names, no stale text stays.
* *file list and parser*: order of precedence of the sources of a checksum, early
  returns, malformed lines, a list that grows while it is iterated.  Right means: every
  chosen file is listed once and with its hash, a checksum file is taken whole or not at
  all, nothing is held afterwards.
* *exporter*: a format that another run of the program must read.
* *network*: any of eight calls fails, a reply comes in pieces, a query is repeated, or
  made while files are hashed.
* *conversions and algorithms*: boundaries, buffering across update calls that are cut
  anywhere, moves of objects that own memory, a table of sizes written by hand.

`PROJECT.json` lists the single hazards with their lines and the properties that
cover them.

## 2. The modules

| module | models |
|---|---|
| `BlockPool` | the budget: `remaining` and `live`; each half of a failed attempt is a step of its own |
| `Coordinator` | the counters, the mutex and the messages of each coordinator |
| `FileHashTask` | EXTENDS the two; tasks, read queue, thread pool; one action per stretch of code between two points where another thread can see the difference |
| `HashPipeline` | EXTENDS it with the user interface threads, the user and the destructors; `Init`, `Next`, `Spec`, `FairSpec` |
| `HashPipelineProps` | invariants, action properties, liveness, the refinement |
| `HashJobs` | abstract specification: a file is started once and gets one verdict, and a coordinator disappears only when none of its files runs |
| `Settings` | the registry, the copy of each window, the settings dialog |
| `Results` | what a file is compared with, the list at each listing, its counts and colours, the box for a hash, the status line and its timer |
| `Query` | `DoHTTPS`, the VirusTotal query and the check for updates over it, beside threads that finish files |
| `FileList` | `ProcessEverything`: from the chosen paths to the files with their expected hashes |
| `SumFile` | the parser of checksum files, with its file mapping |
| `Export` | EXTENDS `SumFile`: the exporters, saving, and reading the file back |
| `StreamHash` | abstract specification of a hash: it is fed piece by piece and yields the digest of the whole |
| `Ed2k`, `Crc64`, `Blake2sp` | three algorithms with buffering or slicing of their own, as state machines beside their definitions |
| `Streams` | the three with small words and blocks, and that each implements `StreamHash` |
| `Algorithms` | the choice of the library for the processor, the table of algorithms, the sizes of digests |
| `HashBox` | the owner of a context and its moves |
| `Codec` | hexadecimal, base64, string tables, versions, long paths |
| `MCHashPipeline`, `MCDialog`, `MCFiles`, `MCLibrary` | roots for TLC: values of the constants, and the composition of the parts below |
| `Selection` | what a loop collects that goes over a sequence and skips some members; used by `Query`, `FileList`, `Export`, `Codec` and `Blake2sp` |
| `HashPipelineProofs`, `LifetimeProofs` | theorems about the pipeline; the second EXTENDS the first |
| `FoldProofs` | induction, sums over finite sets, functions given step by step, concatenation, and what `Selection` collects: what the other proofs need of recursion |
| `DialogProofs` | theorems about `Settings`, `Results` and `Query` |
| `SequentialProofs` | theorems about `HashBox`, `SumFile`, `Export`, `Algorithms` and `FileList` |
| `LibraryProofs` | theorems about `Ed2k` and `Codec` |
| `Crc64Proofs`, `Blake2spProofs` | that `Crc64` and `Blake2sp` implement `StreamHash` |

`MCDialog` puts together `Settings`, `Results` and `Query`; `MCFiles` the modules of
files; `MCLibrary` the rest.  What such modules share in the program is values that one
computes and the other is given as a constant (the algorithms that were hashed, the
files of a list), not variables, so their interleaving shows nothing.  A variable
`part` therefore chooses for each behaviour which of them moves, and the others stay in
one initial state.  The one event that all three of `MCDialog` share, a message that files
are finished, comes in each of them whenever it may come in the pipeline or more often.  Where one component does act on the state of another it is one
machine: the exporter and the parser that reads its file, the settings of several
windows over one registry, the pipeline with its dialogs.

### Correspondence with the code: the pipeline

A *thread* is a worker of the pool or the user interface thread of a
coordinator; it is named by the coordinator.  `pc[th]` is where it is, `task[th]` is
its `this`, `hand[th]` is `reuse_block` or the block just allocated, `arg[th]` the
number of submissions left, the context index, or the part of the bar it is about
to send, and `from[th]` tells which function called `ReadBlockAsync`.

| code | actions |
|---|---|
| `ReadBlockAsync` | `ReadBlockFailed`, `TryAllocate`, `AllocationGivenBack`, `StartRead`, `StartReadFails`, `Enqueue` |
| `Finish`, `FileCompletionCallback` | `Complete`, `Notify` or `NotifyOwnWindow`, `FinishDereference` |
| `ProcessReadQueue` | `Dequeue`, `QueueEmpty` |
| `OverlappedCompletionRoutine` | `ReadCompletedBadly`, or `ReadCompleted`, which has tested `_cancelled` |
| `AddToHashQueue` | `AddToHashQueue` (resets the counters), `SubmitWork`; the user may cancel before and between |
| `DoHashRound` | `BeginHash`, `Update`, `FinishHash` |
| `FinishedBlock`, `FileProgressCallback` | `CountProgress`, `SendProgress`, `Advance` |
| `RegisterWindow`, `AddFiles`, `ProcessFiles` | `RegisterWindow`, `AddFile`, `FilesAdded`, `NoFiles`, `CountFile`, `StartProcessing`, `FilesStarted` |
| message handlers | `HandleFinished`, `HandleProgress` |
| `Cancel(true)`, `~MainDialog` | `CancelClicked`, `CancelReturns`, `Close`, `UnregisterWindow`, `WindowDereference` |
| `~Coordinator` | `DeleteBegins`, `FilesCancelled`, `Deleted` |

What is abstracted, and why it is sound for the properties:

* Sizes and offsets are counted in blocks of 2 MB; the last, shorter block of a
  file is a block.  A file of no bytes has one round with nothing to hash.
* A hash value is the sequence of the blocks the context was updated with, each
  tagged with its file and number, so that a missing, repeated, reordered or foreign
  block shows.
* Errors are "failed" or "cancelled"; the number of the error does not matter
  to control.
* `g_read_queue` promises no order between producers, so it is a bag.  The
  thread pool may run callbacks in any order.
* `_cancelled` and, in the handler of the message, `_error` are plain members
  read and written by several threads.  Each read in the model may see the old value
  or the new; the code reads `_cancelled` once on every path between two other
  visible steps.
* `SendNotifyMessageW` to another thread's window puts the message in a queue that is
  delivered in order and before input; to the thread's own window it calls the
  handler at once, with the mutex held (`NotifyOwnWindow`).
* `stage` is a history variable: how far a task is in its life.  No guard reads it,
  except the seeded fault `ReadArrives_Spurious`.
* `deleting = "gone"` stands for the freed memory of a coordinator and its tasks;
  `NoUseAfterFree` says that nobody could still reach it.
* Reads are whole: that a file shrinks while it is hashed is not modelled.
* A RELEASE of a property page may come at any time after the files were added
  ("release" in `Faults`), on another thread than the dialog's.

### Correspondence with the code: the other parts

| code | actions or operators |
|---|---|
| `Settings.h/.cpp`, `RegistrySetting` | `Load`, `Set`, `SetNoSave`; the result of the store is ignored, so it may fail |
| `MainDialog::OnInitDialog`, `Coordinator::AddFiles` | `InitDialog`, with `AutoEnable` and `SumfileEnable` |
| `SettingsDialog.cpp` | `OpenSettings`, `ToggleAlgorithm`, `SelectAlgorithm`, `ClickBox`, `PickColour`, `CloseSettings` |
| `Coordinator::ProcessFiles` | `ProcessFile` of `Results`, one file at a time; the message when all that were started are done is in `Complete` |
| `FileHashTask::Finish`, the comparison | `BeginFinish`, `FinishAlgorithm` (one turn of its loop), `Complete` of `Results` |
| `MainDialog::OnAllFilesFinished`, `FileFinished` | `OnAllFilesFinished`, `RowsOf`, `Count`; `AllFilesFinished` of `Settings` and `ListFiles` of `Query` for the buttons it enables |
| `HashColorTypeForFile`, `SetTempStatus`, `UpdateDefaultStatus`, `OnHashEditChanged` | the operators of these names |
| `ListDoubleClick`, `ListPopupMenu` | `Copy` |
| `DoHTTPS` | `OpenHandle`, `Exchange`, `QueryDataAvailable`, `ReadData`, `Fails`, `CloseHandle` |
| `OnVTClicked`, `vt::Query`, `GetLatestVersion` | `OnVTClicked`, `CheckForUpdates`, `Throws`, `UseReply`, `ShowVersion` |
| `ProcessEverything` (`path.cpp`) | `ReadSumfile`, `AddEntry`, `EntriesAdded`, `HandleFile`, `ListFolder`, `ListFolderFails`, `ListDone` |
| `TryParseSumFile`, `SumFileParser2` | `Open`, `Map`, `View`, `Single`, `ProcessLine`, `Unmap` |
| `Exporter.cpp`, `SaveMemoryAsFile` | `SFVString`, `SumfileString`, `Create`, `Write`, `ReadBack` |
| `src/Algorithms/Hasher2.cpp`, `LegacyHasher.cpp` | `get_cpu_level`, `Rows`, `ParamCheck`, `GetOutputSize` |
| `src/Algorithms/Hasher2.h`, `HashBox` | one action for each constructor, assignment and method |

The handler of `WM_USER_ALL_FILES_FINISHED` has no guard in the code and none in the model
but that a message was sent.  It may find files that are hashed, half finished, or not
started (first finding); it may run again; and when a file cannot be started, the thread
of the window sends itself the message in the middle of `ProcessFiles` and handles it
there, which is why `OnAllFilesFinished` asks for `Pumping` (the thread has left
`OnInitDialog`) *or* for a last file that failed.  `Settings` calls a window that was listed
before its files were done "early", and `Query` lets a file finish, or get an error,
between any two calls.  While it reads results that a thread is writing, the
handler sees them as before or after an algorithm; that a vector is read in the middle
of `resize` is undefined and not modelled.

What is abstracted here: a digest is a model value that equals another one or does not;
a line of a checksum file is the set of regular expressions that match it; a path is
the sequence of its components, some of which are short names of others; a body of a
reply is its pieces by number, and JSON is one of a few forms; colours and texts are
names.  A compression function is an injective constructor over what it was given,
so that two digests are equal only if the same data was compressed in the same order.
The rows of the list are a set, each with the listing it comes from: the order that
sorting gives them changes neither counts nor colours.  VirusTotal's rows are those of
`Query`.  `virustotal_tos` is a setting too, which `virustotal.cpp:39` stores when the user
agrees; it is in `Query` (`consent`) and not among the keys of `Settings`.

Operators with a suffix, as `LastOfRound_Early`, are faults a programmer could have
made.  No specification uses them; they replace the operator they are named after
when one wants to see that a property notices.  `PROJECT.json` lists them under
"mutants".

## 3. Runs

Constants of the first eight: two workers in all of them, one block more than the
budget where a budget is exceeded, `HashCount` work items per round instead of 31,
`Resolution` parts of the progress bar instead of 256.

| run | instance | shows |
|---|---|---|
| `contention` | one window, two files of no or two blocks, budget 1, two contexts, every fault | `TypeOK`, `OneOwner`, `RoundCounted`, `ContextsApart`, `DigestsComplete`, `BlocksOwned`, `BudgetKept`, `CancelStopsHashing` |
| `parallel` | the same with budget 2, so that two files are in their hash rounds together; all faults that do not requeue | `CountersExact`, `LastListingSeesAll`, `ProgressExact`, `UntouchedAfterFinish`, `ErrorSticks`, and that `HashPipeline` implements `HashJobs` |
| `windows` | two windows with a file each and one block | `NoUseAfterFree` when each window's threads handle the other's files |
| `liveness` | one window, two files, a block for each, `FairSpec` | `FilesFinish`, `CancelEnds`, `CloseEnds` |
| `quiet` | a window with one file and one with none, `FairSpec` | `ListingArrives` |
| `early_listing` | two files, no fault | violates `ListsOnlyWhenDone` |
| `lost_wakeup` | two files, one block, no fault, `FairSpec` | violates `QueuedFilesResume` |
| `give_up_assert` | one file whose read cannot start | violates `GiveUpAsserted` |
| `dialog` | two windows over one registry; one window with every option; a list of two files and two algorithms; the box and status line; the servers; listings that come early and again | `SessionHashed`, `StoreFollowsDialog` (settings), `SecureTrumps`, `RowsAgreeWithCounts`, `VerdictOfText`, `StatusShown`, `CopiedGoesAway` (results), `ReplyWhole`, `VTRowsTrue` (network) |
| `session_only` | the same | violates `OnlyTicksAreStored` |
| `files` | a small file system and twelve choices in it; any checksum file of three lines; exports of six names that the parser sees differently | `ChoiceListed`, `SumfileAloneCounts` (file list), `AllOrNothing`, `Released` (parser), `ReadsBack` (exporter with parser) |
| `library` | three streams; 668 machines; three boxes; all short texts | `StreamsAreHashes` (that each algorithm implements `StreamHash`), `OnlyExecutable`, `TableSound`, `OwnedOnce`, `ConversionsInvert`, `TextMeansItsPairs` |

*Bounds of the pipeline.*  Two files are enough for one to wait while the other holds the only
block, for a block to be handed over, and for the queue to be drained by a thread
that works for the other file.  Two blocks per file make a file go through a whole
"next block" and cross a cancellation in between.  Two workers and two work items
make a round overlap with its own submission, with the end of another file, and with
itself; a third thread, the dialog's, starts files and cancels at the same time.
A file of no block ends in its first callback or is stopped before it by an error.
`windows` uses one context and one block per file because it is about the
coordinators, not the rounds.  No variable needs a bound of its own: a task is
hashed once and a dialog closed once, so the state space is finite.

*Bounds of the other parts.*

* Two windows are enough for one to load what the other has stored meanwhile.  The
  part with two windows has no clipboard hash of the third algorithm's size and
  `Clicked` names what the user changes there; the part with one window has every
  option, every way to begin and the early listings.
* Two files and two algorithms, one of them secure, give each way in which a secure
  result comes before, after or without an insecure one.  With two files one can be
  listed while the other is not started, is half compared, or fails in the middle of
  `ProcessFiles`, and both again later.  Two copies to the clipboard (`MaxCopies`) let
  the second set the timer again before the first has run out, and let a listing come
  between them.
* Two files and at most one query for each listing: a reply may name both files, one or
  none, one file may be unfinished when it is asked about, and a second query adds to
  the rows of the first.
* The file system has a folder in a folder, a link back to its parent, a short name,
  a checksum file of the whole folder with names in both forms and files that are
  gone, one for a single file, and one that lies beside a checksum file.
* Three lines of each of the possible kinds make a file change its mind about comments
  or style once and again.  `MaxLines` bounds them.
* Chunks of eD2k are 3 bytes and streams up to 9, so that a stream ends before, at and
  behind a chunk.  CRC words have 3 bytes of 2 bits, and streams of 5 bytes begin at every
  alignment.  BLAKE2sp has 2 leaves with blocks of 2 bytes, streams up to 9 and a counter
  that carries at 4.
* `Machines` has every combination of the bits that are asked for and of what the
  system saves, without the instructions that come along with them and with those of
  each family (`Companions`).  The table of algorithms is the one of the code.
* Bytes and characters are those at which the conversions branch: digits, letters in
  both cases, the first letter after `F`, blanks, the pad, and one beyond 8 bits.  Texts
  may be empty, and up to three characters follow them in memory.

*Deadlock* is checked in `parallel`, `liveness`, `quiet`, `early_listing` and
`give_up_assert`.  In `contention`, `windows` and `lost_wakeup` a file may be left in the
read queue for ever (see "Findings").  In the last four runs the parts are calls
that return, and nothing is left to do then.  Where it is checked, the only states
without a step are those in which all coordinators are gone, and `Terminated`
stutters there.

*Symmetry* is used for safety only, over workers and blocks, and over the files
where they belong to one window.

*Fairness.*  `FairSpec` asks for weak fairness of each worker, each user
interface thread and each destructor.  The thread pool runs what is submitted and
the system completes every read that was started (cancelled or not); a thread that can
run runs.  Weak fairness is enough because a worker that is idle with work in
front of it stays enabled.  `WorkerStep` is fair as a whole, so the choice of which
callback runs first is left open.  Nothing is assumed of the user: `UserStep` has no
fairness, and a window may stay open for ever.  That is why `ListingArrives` allows the
window to be closed first.  The liveness runs give each file a block and leave
out "commit" and "busy": with fewer blocks the properties fail for the reason
`lost_wakeup` shows.

In `MCDialog` only the timer of the status line is fair, in the part about the
box: Windows sends `WM_TIMER` while a timer is set and the thread pumps messages; the user
may do nothing, and another copy may make the line temporary again.

## 4. Findings

* `ListsOnlyWhenDone` (`early_listing`).  `ProcessFiles` counts a file and starts it
  before it counts the next (`Coordinator.cpp:89-92`).  If the first finishes at once,
  the count is zero and the dialog is told that all files are finished: it lists every
  file, unfinished ones as matches because `_match_state` is 0 and there is no
  error, enables the settings, and lists everything again later.  `Coordinator.h:56`
  wants files inspected "before processing or after all are done".
  One consequence is in `Settings`, where a window may be "early": "we only enable settings
  button after processing is done" (`MainDialog.cpp:459`), because algorithms enabled later
  have no results, but the early listing enables it too (line 461), and the window then
  shows algorithms its tasks do not compute.  `SessionHashed` therefore speaks of a window
  until its first listing.
* `QueuedFilesResume` (`lost_wakeup`).  A task that finds the budget used up is
  enqueued some steps later (`FileHashTask.cpp:184-221`).  If in between the last
  running callback frees its block, finds the queue empty and ends, no callback is left
  to look at the queue again.  `Cancel(true)` and the destructor then wait for ever.
  The real budget is 512 blocks, so it takes that many files at once, or memory that
  runs out.
* `GiveUpAsserted` (`give_up_assert`).  `assert(_error)` at `FileHashTask.cpp:213` is
  reached only when `_error` is zero; `assert(error)` was meant.
* `OnlyTicksAreStored` (`session_only`).  The settings list stores the check box of a
  row at every `LVN_ITEMCHANGED` (`SettingsDialog.cpp:254`), which a mere selection
  sends as well.  The box shows the copy of the window, where the clipboard or a chosen
  checksum file may have enabled the algorithm "for this session" (`path.h:26`); looking
  at its row enables it for ever.

Seen while modelling.  These are what the code does and the modules say so; no
document or test promises otherwise, so no run calls them wrong:

* The libraries may use instructions nobody asks for: `/arch:AVX2` allows BMI, FMA and
  others, `/arch:AVX512` allows BW, DQ and CD (`src/Algorithms/CMakeLists.txt:41`, `:43`), while
  `get_cpu_level` tests AVX2, or F and VL.  Processors have these families whole, and
  `OnlyExecutable` says that it relies on that (`FamiliesWhole`).
* `HashStringToBytes` ignores an odd last character (`utl.h:79`), so a name of an odd number of
  characters that begins with pairs of digits reads as a hash; and for an empty text
  `size() - 1` wraps and the loop runs on behind it, to the first character that is
  neither a blank nor a digit.
* `.sfv` is no extension of an algorithm (`LegacyHasher.cpp:316`), so choosing such a file
  does not enable CRC32 (`path.cpp:89`).
* Where `CPUID` reports no pages the library is a null pointer that is used
  (`LegacyHasher.cpp:63-64`); the variable `crashed` of `Algorithms` says so.
* Names with blanks or a leading `;` in an SFV file, and after two blanks names of pairs
  of hexadecimal digits, with or without one character more, are written and not read back (`Exporter.cpp:110`, `:164`): hence
  `PlainNames` in `ReadsBack`.
* The exporter and the VirusTotal query take the algorithms that are enabled now
  (`Exporter.cpp:170`, `MainDialog.cpp:580`), not those the files were hashed with; a digest
  may then be empty.
* An empty array in VirusTotal's reply is used before it is tested
  (`virustotal.cpp:130`): `call = "crashed"` in `Query`.
* The return for a file that holds a single hash leaves view and mapping open
  (`SumFileParser.cpp:157`); `Released` names it as the one exception.

## 5. Theorems

They hold for every value of the constants (any numbers of windows, files, threads, blocks
and contexts, any budget; any boxes, algorithms, colours, lines of a file, pieces of a
reply) under the named assumptions of the modules: `PoolAssumption`,
`CoordinatorAssumption`, `TaskAssumption`, `SizesAssumption`, `HashBoxAssumption`,
`SettingsAssumption`, `KeysAssumption`, `ResultsAssumption`, `QueryAssumption`,
`SumFileAssumption`, `MachinesAssumption`, `FileListAssumption`, `FileSystemAssumption`,
`Ed2kAssumption`, `Crc64Assumption`, `BlakeAssumption`, `CodecAssumption`, `InputsAssumption`,
`ExportAssumption`.  They say that names do not clash, that tasks, workers, files and folders are finite sets, that numbers are positive, that every setting has a default of
its type, that a machine's registers are those of one of the three architectures, that
what is above a file in the file system is a folder, that a server's items are pairs
of a digest and an answer and the files asked about are different tasks, that a buffer of eD2k is no longer than a chunk
(2 MB and 9.28 MB in the code), that CRC64's words and bytes have bits and its polynomial is a
word, that BLAKE2sp's digest is no longer than a block and the number of bytes in a block
fits in a word of the counter (64 and 2^32 in the code), that bytes are below 256, that a text in memory has a
length that fits in a `size_t`, one of three characters for each byte of a hash
included, that a name to export is of one of the kinds the parser tells apart
(`NameKinds`), and that the algorithms of an export are numbers of algorithms.  TLC evaluates them in the runs.

### The pipeline

The arguments build on each other: types, who owns a file, who has a block, what a round has
done, what the counters count, who may still reach a coordinator.

* `TypeCorrect` (`HashPipelineProofs`): `Spec => []TypeOK`.  `TypeOK` is not
  inductive: a step of a thread inside a member function keeps the types only if the
  thread has a task, and `SendProgress` only if it has computed a part.  `AtWork` says
  so, and `TInv == TypeOK /\ AtWork` is inductive.  The proof has one step per action,
  and under it one per group of variables the action changes.
* `OneOwnerAlways`, `RoundCountedAlways` (`HashPipelineProofs`).  Neither is inductive without
  the other: the work item that brings the counter to zero takes the file over, which leaves
  the file in one place only if no other item is left; and a completed read sets the
  counter, which is right only if the file was in no other place.  `OwnerInv` adds that a
  file that is about to be started was counted by the thread of its own coordinator and
  not before (`Waiting`), and that a submission loop is inside its bounds (`Submitting`).
  `AloneMeans` and `PendingMeans` say what the two counts imply for a file with a thread
  in it and for one that is queued or being read; each action then moves one file
  from a place to another and leaves the others (`Unmoved`).
* `CancelStopsHashingAlways`, `ErrorSticksAlways`, `UntouchedAfterFinishAlways`
  (`HashPipelineProofs`), about every step.  The test of `_cancelled` and the start of the round are
  steps of their own, so a flag set between them does not stop the round.  `UnderWay` names
  what such a file may still be in: between the test and the round, in the round, or about to
  advance; and a cancelled file that is not there does not get there
  (`CancelledIsLeft`), whichever thread steps: only the test leads in, and only the
  thread that owns the file advances it.  `WorkedOn` derives from `OwnerInv` that a file that any
  thread, read, queue entry or work item belongs to is running, so no step can reach a
  finished file (`DoneStays`).  That an error is never replaced needs one invariant more,
  `NoErrorYet`: a file that is being read, hashed or advanced has no error, since only the
  start of a read makes it busy (`WhoGetsBusy`), and that is refused to a file with an
  error; and whoever sets the error takes the file out of all these places, because it was
  alone in it.
* `BudgetCorrect`, `BlocksApart`, `BlocksOwnedAlways` (`LifetimeProofs`).  Giving a unit back is
  right only if the block that is freed was committed, which stays true of the other
  holders only if nobody holds the same block: `BudgetInv` adds both facts, and that the sum
  is never exceeded while some attempts are being undone.  That nothing leaks needs to know
  who has a block at all: `HeldInv` says that a file has one exactly while it is busy, that
  a thread has one in its hand only where the code may reuse it, and that every committed
  block is one of these.
* `ContextsApartAlways` (`LifetimeProofs`).  `RoundInv`: the start counter is exactly the
  number of work items that have not begun (`StartExact`), so the numbers of those that
  run lie above it and differ (`ItemsApart`), and from the completed read to the end of the
  round (`Loaded`) the block holds what the file's offset says (`DataRead`).
* `DigestsCompleteAlways` (`LifetimeProofs`).  The property speaks of the end of a file only;
  `DigestInv` says at every moment what each context has seen: the blocks before the file's
  offset, and the present one if its work item has run (`DigestsKept`).  A round advances
  the offset when all contexts have seen the block, for `RoundCounted` says that no item is
  left, and a file ends without an error only at its size (`WholeRead`).
* `CountersExactAlways` (`LifetimeProofs`): both counters are cardinalities of sets of files
  and threads, so each action adds or removes one member (`WhoRefers`, `MovedOn`), and the
  action that changes a counter is the one that changes the set.
* `NoUseAfterFreeAlways` (`LifetimeProofs`): with the counters exact, a destructor that has
  seen both at zero knows that no file of its coordinator runs, hence by `WorkedOn` that no
  thread, read, queue entry or work item has one.  `MutexHeld` says that the mutex is
  held exactly by the thread that is about to send the last completion, and `DeletedLate`
  that no file starts again behind a destructor's back.
* `LastListingSeesAllAlways` (`LifetimeProofs`): `LastTold` says that once all files of a
  window are started and done, a listing has shown them all, the message is in the queue,
  or the thread that will send it holds the mutex (`Told`); who finishes the last file takes
  the mutex with the count (`WhoIsLast`), and leaves it with the message (`WhoTells`).
* `ProgressExactAlways` (`LifetimeProofs`): the sizes are sums over the files of a window
  (`SizesTotal`, `Progressed`), of which a step changes one summand; a thread between adding
  a block's size to the sum and adding it to the offset is counted in (`Moving`).  That no
  part is greater than the bar follows with the division of `CountProgress`.
* `HashJobsImplemented` (`LifetimeProofs`): `Spec => ImplementsHashJobs`, the refinement of
  `HashJobs` by the mapping of `HashPipelineProps`.  The initial states map to the initial
  state; every step maps to a start, a verdict, the end of a coordinator or a stutter.  The
  verdict that is mapped is that of the file's error and digests; `VerdictsJudged` says
  that it is the one its `stage` stands for, so that a file whose `stage` does not
  move is a stutter.

### The dialog and the network (`DialogProofs`)

* `SessionHashedAlways`, `StoreFollowsDialogAlways`.  `Orderly` says what the phases of a
  window mean: a dialog is open only when its files were listed, early or late, so until
  then nothing changes the settings the tasks were made with; a window without a list
  offers nothing.  What was computed, and the exporters offered, outlast an early
  listing too.  `SessionOnly` and
  `SumfileEnabled` say what `SetNoSave` does to a copy, and `EditMeans` brings every way to
  edit a setting to one form, which both theorems use.
* `SecureTrumpsAlways`: `TasksInv` says of a file whose hashes are being compared that its match
  is the best of the results so far, and that it has results for just the algorithms it is
  done with.  `BestOneMore` is the turn of the loop: it keeps the match the best of one
  result more.  The threads of other files do not disturb it (`OthersKeep`,
  `OtherTaskKeeps`).
* `StatusShownAlways`: `StatusInv`, the property with its types.
* `VerdictOfTextAlways`: the text is checked when it is typed, and files finish later, so
  the verdict may be older than the results; what was finished then is `checked`.  `BoxInv`
  says that all of `checked` is finished.  A result that is there stays, so the first file
  and algorithm with a hash stay the first (`FirstIs`, `FirstStays`), and with them the
  file that is named and its colour (`FoundStays`, `BoxStays`); the text left in the
  box, which may have been rewritten, reads as what was checked (`EditReads`).
* `RowsAgreeWithCountsAlways`: `RowsInv` splits what a listing shows of a file in two.  A file
  that was not finished then is a guess (`early`), and stays one; any other is `Firm`, and
  its rows are what its results give today, for a finished file does not change
  (`FirmRows`).  Each count is the number of guesses counted so plus the number of firm
  files counted so (`Counted`).  A listing adds to both (`NewGuessesAre`, `NewFirmIs`,
  `FirmGrows`), so it keeps them (`ListingCounts`, `ListingRows`), whether the queue's
  message brings it or a file that fails in the middle of `ProcessFiles`.  The number of rows
  in a colour follows, for `MatchIs` says what the match of a file is among its digests
  (`CountShown`), and a count is put together from disjoint sets (`Together`).
* `VTRowsTrueAlways`: `AskInv` says that while VirusTotal is asked the button is enabled and
  there was consent, that there are fewer answers than listings while the button is
  enabled, since each listing enables it once and each answer disables it, and that each
  file is asked about once.  An answer adds rows of its own number, one for a file at
  most (`RowsAdded`), and leaves the others (`RowsKept`).  `MapMeans` says by induction over
  the items of a reply what the map of digests holds: for each digest, what the last item
  about it says.
* `ReplyWholeAlways`: `ReplyInv` says that at each step of `DoHTTPS` the body is a beginning
  of the reply (`Read`, with `MorePieces` for a portion more) and what has been answered
  (`Answered`); `StepIs` numbers the steps, so that the handles open are those of the steps
  passed.

### Files and library (`SequentialProofs`)

* `OwnedOnceAlways`: the strengthening is `Working`: a box with a context has an algorithm,
  or its block would look free.
* `ReleasedAlways`, `AllOrNothingAlways`: `Holds` says what is open at each step of the
  parser, and `LinesRead` that the entries are those of the lines read so far, each from one
  line that is neither empty nor a comment, in one style.
* `OnlyExecutableAlways`: the level that is chosen is given only to a machine that has
  what is asked for, with all below it and with the registers saved (`LevelSupported`), and
  what BLAKE3 picks is among what its files are compiled for in that library
  (`FirstIsDefined`, `PickedIsDefined`).  The instructions of a library are those its build
  flags allow, which are more; that the machine has these too is the hypothesis
  `FamiliesWhole` of the property.  That the registers are saved needs no hypothesis.
* `ChoiceListedAlways`: the property speaks of the end of `ProcessEverything`; while the list
  grows under the iteration, `Reached` says that each file below the choice is listed, or
  stands under a folder that could not be listed, or is the checksum file, or lies below a
  member of the list that is still to be handled.  A step that handles a folder replaces it
  in this argument by the child on the way down to the file (`WayDown`), which exists, is no
  reparse point and is therefore listed.  `WithinChoice` says that nothing else gets into
  the list, and `Based` that the base path is a beginning of everything chosen.  The lemmas
  about paths rest on one: since what is above a file exists, the part of a path that
  `NormalizePath` un-shortens is each of its beginnings that exists (`NormalizedAt`), so
  normalising commutes with taking a beginning (`NormalizedBeginning`), and the common
  folder of a choice by short names is, normalised, a beginning of the long ones.
* `SumfileAloneCountsAlways`: `SumfileInv` says how far the loop over the lines has come:
  after `n` lines the files expect what the first `n` lines say of them (`Added`), where two
  names for a file are one path once they are normalised (`SamePath`).  A file that is
  listed later, because the choice or a folder holds it, expects nothing more, for the
  settings are not asked when there is a checksum file (`AddFileExpects`).

* `ReadsBackAlways`: what an exporter writes are lines of one kind (`LinesFor`): comments
  with one sign, and entries that begin with neither sign and match only the
  expression of the style they were written in (`ExportWritten`, by the exporters'
  loops over files and algorithms, `SumfileWritten`).  No such line is digits alone, so the file
  is not taken for a single hash (`NotSingle`); and the parser, which settles on a
  sign and a style as it goes, has after each line the entries of the lines so far
  (`ReadSoFar`, `LineExport`), because the only sign and style it can have settled on are
  those of the exporter.  With two blanks a name of pairs of digits, or of pairs and one
  character more, would be read as part of a hash: these are the names `PlainNames`
  excludes.

### Algorithms and conversions (`LibraryProofs`, `Crc64Proofs`, `Blake2spProofs`)

* `Ed2kImplemented`: both versions of `Ed2k`, with chunks of any size, implement
  `StreamHash`.  The invariant `Ed2kInv` says what an unfinished context knows: the digests
  of the whole chunks, the last of them once more, and the rest (`Describes`).
  `UpdateInternal` keeps it if what it is given does not reach beyond the present chunk
  (`UpdateDescribes`), and `Update` cuts a buffer so that neither part does
  (`UpdateKeeps`), provided that a buffer is no longer than a chunk.  `FinishIsDigest` goes
  through the four ways to finish, among them the file of exactly one chunk, at which the
  two versions part.
* `CrcImplemented` (`Crc64Proofs`): `Crc64`, with words and bytes of any width and any
  polynomial, implements `StreamHash`, wherever in memory the buffers begin and end.
  The argument is linearity: a step of the division commutes with the exclusive or (`OneBitIs`),
  so its repetitions do (`TimesLinear`), and it only shifts a word whose low bits are not
  set (`TimesShifts`).  Hence the eight tables hold the steps of one to eight bytes (`TableIs`),
  and the sum of their entries for the bytes of a word is the steps of the whole word
  (`SumsAreSteps`).  That these are the steps of the word's bytes one by one is `DigitsTaken`: while
  some digits have been taken, the register differs from the steps of the whole by what is not
  taken yet.  The same lemma, for the bits of a byte, relates the function to the
  definition bit by bit (`ByteDivided`, `ReferenceIs`).
* `BlakeImplemented` (`Blake2spProofs`): `Blake2sp`, with blocks and digests of any size, any
  number of leaves and counter words that hold a block, implements `StreamHash`.  One predicate describes a node of the
  tree, leaf or root: `Absorbed` says that it has been given the first *x* members of a
  sequence, has compressed the whole blocks before the last of them (`Chain`), counts their
  bytes in two words, and begins its buffer with the rest (`Holds`).  A full block is still in the
  buffer, as the code keeps it until more comes.  `UpdateAbsorbs` shows by induction over the
  turns of the loop that an update carries a node from *x* to *y*; the counter's carry is
  `CounterMoves`.  `FinalIs`: a node that has absorbed all of a sequence yields the hash of the
  definition, padding and last flag included, and old bytes behind the rest do not matter,
  for they are wiped.  A leaf absorbs the part of the stream that is its own (`Part`), which
  does not depend on what comes later (`PartBefore`) and grows by a piece of a block
  exactly when the piece is dealt to that leaf (`PartGrows`, `PlaceIs`), so a buffer carries
  all leaves on together (`DealGoes`, `DealtIs`).  The root absorbs the leaves' digests in the
  same way (`RootIs`).  The invariant is `BlakeInv`.
* `ConversionsInvertAlways`: the invariant is the property with `InputsFit`, which says what
  the input of each kind of call is; the rest is about the conversions themselves.  A text
  *spells* a hash from a place on if each byte stands there as two digits, with or
  without a blank before them (`TextSpells`, `SpacedSpells`); the loop of
  `HashStringToBytes` reads a byte and goes on behind it (`ReadsByte`), so by
  induction from the last byte down it reads them all (`ReadsHash`), whatever stands
  behind the text.  Base64 goes group by group (`GroupDecoded`); that the last group, with
  or without its pads, comes back too is `DecodesBack`, by the three cases of how many
  bytes it holds (`PadsAtEnd`).  A string table keeps what it holds while strings are added
  (`TableKeeps`), so the walk is at the length of string *i* after *i* steps (`LoadsEach`),
  an empty last string included, at which it ends early.  Versions are
  numbers of three digits in base 2^16 (`DigitByDigit`).
* `TextMeansItsPairsAlways`: `InputsFit` again.  `TextMeans` says by induction, from the end
  of the text down, that what is read from a place on are the pairs among the characters
  there that are no blanks, all but at most one of them.  `OutsideIrrelevant` says that a read
  behind the text either meets the first character there, which is no digit, so the text
  is invalid whatever the second is, or is not reached.  Blanks are skipped alike whether
  the skipping ends at the text's bound or at a character (`SkipsAlike`).  For an empty text
  the bound wraps, and blanks and digits behind the text are read; but the walk ends
  with the zero behind it at the latest, which makes all invalid, by induction from
  there (`EmptyText`).

### Induction

The library's induction theorems take a predicate as a parameter, which the provers cannot
instantiate.  `FoldProofs` states induction over numbers and over finite sets for a *set*,
that of the arguments the predicate holds of; a proof defines this set.  It also unfolds the
library's `SumFunctionOnSet`: what it computes is a function chosen among those that satisfy
the recursion, whose existence is proved first (`SumsExist`) and which then gives
`SumUnfold`, `SumPut`, `SumAlike` and the others that the pipeline needs.  `OrderMeans` does
the same for the order in which a folder is listed, `CollectedUnfolds` for `Selection`
and `MapUnfolds` for the map of a reply.  `StepsExist` is the general form, that a first value and a step
determine a function on 0, 1, .. *n*; the string tables (`TableUnfolds`, `LoadUnfolds`), the
register of CRC64 (`PuttingIs`) and the repetition of a step (`TimesIs`) rest on it; the three
loops of BLAKE2sp have one lemma of the same kind (`LoopExists`, `LoopRuns`).  The parser of hashes, whose recursion goes up the text by two places or
more, has an induction of its own, from the end of the text (`ParseUnfolds`).

### What the proofs changed in the model

* The `CASE` of `Verdict` (`HashPipelineProps`) and those of `HashColorTypeForFile`, `Count`
  and `Check` (`Results`) had arms that overlap.  TLC takes the first arm that holds, the
  semantics any of them, so nothing could be proved of a file with an error and a match.
  The arms are disjoint now, as the returns of the code make them.
* `First` (`Algorithms`) took the first of a selected sequence and takes the entry with
  the least index now, as the chain of tests does.
* `FileList` says what a file system is (`FileSystemAssumption`): without it a part of a path
  might exist whose beginning does not, which is not what the code relies on.  The lines
  of a checksum file are kept as they are read, and those without a name skipped when they
  are added, as the loop does.
* `Query` gives the rows that a reply adds (`AddRows`) and `SumFile` the recognition of
  a single hash (`OneHash`) names of their own.
* `Selection` replaces `SelectSeq`, which takes an operator as its test: the test is now the set
  of the places that pass.  The map of a reply is a function of how far its loop has come.
* The conversions of `Codec` were written with the library's folds and filters, and are
  functions of the place in the result now; the groups and bytes of base64 have names.
  `InputsAssumption` says what was implicit in the values TLC was given.
* `Crc64` was written with the library's folds, and is functions of how far the loops have
  come now, in the part byte by byte, the whole words, the sum of the tables and the definition.
* `Blake2sp` was written with recursive operators for the loops of both updates and with the
  library's folds and filters for the root and the definition.  The loops are functions of the
  number of turns now, with a turn of each a definition of its own (`Taken`,
  `DealtBlock`).  The assumption that a counter's word is a multiple of the block is gone: it
  is enough that a block fits.
* `Export` takes the names in the order of `SortByName` and collects the rows file by file and
  algorithm by algorithm, as the loops do, where it sorted a set and flattened sequences
  of sequences.  `OneHash` (`SumFile`) says that exactly one line has something in it,
  where it filtered the lines.
* `QueryAssumption` did not say that an item of a reply has a digest and an answer, nor that
  the tasks asked about are different.  Both hold by the types of the code.

### Only model-checked

* `StreamsAreHashes`, the composition of the three algorithms with small numbers.  The three
  theorems `Ed2kImplemented`, `CrcImplemented` and `BlakeImplemented` say the same of each
  of them, for all numbers.
* `TableSound`: a statement about one constant table; TLC evaluates it completely.
* `FilesFinish`, `CancelEnds`, `CloseEnds`, `ListingArrives`, `CopiedGoesAway`:
  liveness, out of the reach of the prover.

## 6. Plan

What is left to model:

1. The lifetime of the module: what keeps the DLL loaded while a window opened by the
   context menu runs (`OpenHashTab.cpp:274`), with the hosts' class factory and locks.
2. `FindHashInString` character by character, which `Results` gives as three readings of
   a text.
3. A file that shrinks while it is hashed, once it is decided what the right digest is.

## 7. Not modelled

`PROJECT.json` lists every component with its status.  Left out for good:

* layout, menus, fonts and texts of the dialog, the drawing of the list, progress bars
  in the taskbar: no property is about them;
* COM registration, the installer, translations, build scripts, the benchmark and the
  launcher stub: data, or programs of a few straight calls;
* the compression functions (vendored, or arithmetic without control) and the
  configuration of mbed TLS, which is comments and macros;
* the order of the rows and sorting, and what is put on the clipboard;
* a result vector that is read while its thread writes it, which is undefined: an early
  listing reads it before or after;
* wrappers of single system calls in `utl.cpp` (fonts, icons, clipboard, error texts);
* the text of JSON, of HTTP headers and of regular expressions: each is modelled by
  what the program tells apart in it.

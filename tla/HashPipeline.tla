---------------------------- MODULE HashPipeline ----------------------------
(***************************************************************************)
(* The running program: dialogs, their coordinators and file tasks, the    *)
(* thread pool, the shared read queue and the shared block budget.         *)
(*                                                                         *)
(* Each coordinator has one user interface thread, which creates the       *)
(* dialog (MainDialog.cpp), starts the files one after another, then pumps *)
(* messages until the user closes the window; and one destructor, run by   *)
(* the owner of the coordinator (wnd.h's RELEASE, UnregisterWindow of a    *)
(* WindowedCoordinator, or the end of Standalone.cpp).                     *)
(***************************************************************************)
EXTENDS FileHashTask

CONSTANT Sizes  \* the sizes of files, in blocks

ASSUME SizesAssumption == Sizes \subseteq Nat /\ Sizes # {}

VARIABLES
  todo,      \* the tasks ProcessFiles has not reached yet
  bar,       \* position of the progress bar
  listings,  \* how often OnAllFilesFinished has run
  seen,      \* the tasks that were done when it last ran
  deleting   \* how far ~Coordinator is

dialogVars == <<todo, bar, listings, seen, deleting>>
vars == <<taskVars, osVars, threadVars, poolVars, coordVars, dialogVars>>

DialogLabels == {"register", "addFiles", "processing", "start", "pump",
                 "cancelWait", "unregister", "uiDereference", "closed"}
Labels == TaskLabels \cup WorkerLabels \cup DialogLabels

(* At these labels the dialog holds its reference to the coordinator. *)
WindowLabels == Labels \ {"register", "closed"}

(* ~Coordinator has not begun; waits for the files; for the references. *)
Deleting == {"no", "cancelling", "draining", "gone"}

DialogTypeOK ==
  /\ todo \in [Coordinators -> SUBSET Tasks]
  /\ bar \in [Coordinators -> Nat]
  /\ listings \in [Coordinators -> Nat]
  /\ seen \in [Coordinators -> SUBSET Tasks]
  /\ deleting \in [Coordinators -> Deleting]

TypeOK ==
  /\ PoolTypeOK
  /\ CoordinatorTypeOK(Threads)
  /\ TaskTypeOK
  /\ SystemTypeOK
  /\ ThreadTypeOK(Labels)
  /\ DialogTypeOK

Init ==
  /\ PoolInit
  /\ CoordinatorInit
  /\ TaskInit
  /\ pc = [th \in Threads |-> IF th \in Workers THEN "idle" ELSE "register"]
  /\ todo = [c \in Coordinators |-> {}]
  /\ bar = [c \in Coordinators |-> 0]
  /\ listings = [c \in Coordinators |-> 0]
  /\ seen = [c \in Coordinators |-> {}]
  /\ deleting = [c \in Coordinators |-> "no"]

-----------------------------------------------------------------------------
(* MainDialog's constructor: Coordinator::RegisterWindow. *)
RegisterWindow(c) ==
  /\ pc[c] = "register"
  /\ Unlocked(c)
  /\ Reference(c)
  /\ window' = [window EXCEPT ![c] = TRUE]
  /\ Goto(c, "addFiles")
  /\ UNCHANGED <<task, hand, arg, from, taskVars, osVars, poolVars, mutex,
                 notFinished, sizeTotal, progressed, inbox, dialogVars>>

(* AddFiles constructs the tasks.  One that cannot be opened has an error *)
(* and no size, one whose set-up fails later an error and a size.          *)
AddFile(c, t) ==
  /\ pc[c] = "addFiles"
  /\ t \in Owned(c) \ todo[c]
  /\ \E n \in Sizes \cup {0} :
       /\ \/ n \in Sizes /\ UNCHANGED error
          \/ "open" \in Faults /\ SetError(t, "failed")
       /\ size' = [size EXCEPT ![t] = n]
       /\ sizeTotal' = [sizeTotal EXCEPT ![c] = @ + n]
  /\ todo' = [todo EXCEPT ![c] = @ \cup {t}]
  /\ UNCHANGED <<threadVars, offset, block, cancelled, startCounter,
                 finishCounter, digest, stage, osVars, poolVars, window, mutex,
                 notFinished, references, progressed, inbox, bar, listings,
                 seen, deleting>>

FilesAdded(c) ==
  /\ pc[c] = "addFiles"
  /\ todo[c] = Owned(c)
  /\ Goto(c, "processing")
  /\ UNCHANGED <<task, hand, arg, from, taskVars, osVars, poolVars, coordVars,
                 dialogVars>>

(* OnAllFilesFinished: every file is listed as it is at that moment. *)
ListFiles(c) ==
  /\ listings' = [listings EXCEPT ![c] = @ + 1]
  /\ seen' = [seen EXCEPT ![c] =
                {t \in Owned(c) : stage[t] \in {"completed", "done"}}]

(* ProcessFiles without a file; the window's own thread handles at once. *)
NoFiles(c) ==
  /\ pc[c] = "processing"
  /\ Owned(c) = {}
  /\ ListFiles(c)
  /\ Goto(c, "pump")
  /\ UNCHANGED <<task, hand, arg, from, taskVars, osVars, poolVars, coordVars,
                 todo, bar, deleting>>

(* The loop of ProcessFiles counts a file ... *)
CountFile(c, t) ==
  /\ pc[c] = "processing"
  /\ t \in todo[c]
  /\ todo' = [todo EXCEPT ![c] = @ \ {t}]
  /\ notFinished' = [notFinished EXCEPT ![c] = @ + 1]
  /\ stage' = [stage EXCEPT ![t] = "counted"]
  /\ Work(c, t)
  /\ Goto(c, "start")
  /\ UNCHANGED <<hand, arg, from, error, size, offset, block, cancelled,
                 startCounter, finishCounter, digest, osVars, poolVars, window,
                 mutex, references, sizeTotal, progressed, inbox, bar, listings,
                 seen, deleting>>

(* ... and starts it before it counts the next: StartProcessing. *)
StartProcessing(c) ==
  /\ pc[c] = "start"
  /\ Reference(c)
  /\ stage' = [stage EXCEPT ![task[c]] = "live"]
  /\ from' = [from EXCEPT ![c] = "start"]
  /\ Goto(c, "read")
  /\ UNCHANGED <<task, hand, arg, error, size, offset, block, cancelled,
                 startCounter, finishCounter, digest, osVars, poolVars, window,
                 mutex, notFinished, sizeTotal, progressed, inbox, dialogVars>>

FilesStarted(c) ==
  /\ pc[c] = "processing"
  /\ Owned(c) # {}
  /\ todo[c] = {}
  /\ Goto(c, "pump")
  /\ UNCHANGED <<task, hand, arg, from, taskVars, osVars, poolVars, coordVars,
                 dialogVars>>

(* A file that finished inside StartProcessing was the last one counted:  *)
(* SendNotifyMessage to the thread's own window calls the handler, inside *)
(* the lock.                                                              *)
NotifyOwnWindow(c) ==
  /\ pc[c] = "notify"
  /\ ListFiles(c)
  /\ mutex' = [mutex EXCEPT ![c] = NoThread]
  /\ Goto(c, "dereference")
  /\ UNCHANGED <<task, hand, arg, from, taskVars, osVars, poolVars, window,
                 notFinished, references, sizeTotal, progressed, inbox, todo,
                 bar, deleting>>

-----------------------------------------------------------------------------
(* The message loop *)

HandleFinished(c) ==
  /\ pc[c] = "pump"
  /\ inbox[c] # <<>> /\ Head(inbox[c]).kind = "finished"
  /\ inbox' = [inbox EXCEPT ![c] = Tail(@)]
  /\ ListFiles(c)
  /\ UNCHANGED <<threadVars, taskVars, osVars, poolVars, window, mutex,
                 notFinished, references, sizeTotal, progressed, todo, bar,
                 deleting>>

HandleProgress(c) ==
  /\ pc[c] = "pump"
  /\ inbox[c] # <<>> /\ Head(inbox[c]).kind = "progress"
  /\ inbox' = [inbox EXCEPT ![c] = Tail(@)]
  /\ bar' = [bar EXCEPT ![c] = Head(inbox[c]).part]
  /\ UNCHANGED <<threadVars, taskVars, osVars, poolVars, window, mutex,
                 notFinished, references, sizeTotal, progressed, todo, listings,
                 seen, deleting>>

(* Coordinator::Cancel, the part every caller runs. *)
CancelFiles(c) ==
  cancelled' = [t \in Tasks |-> cancelled[t] \/ Owner[t] = c]

(* The Cancel button, hidden once the files are listed: Cancel(true) keeps *)
(* the thread in a sleep loop.  GetMessage delivers what other threads     *)
(* have sent before it returns an input message.                           *)
CancelClicked(c) ==
  /\ pc[c] = "pump"
  /\ inbox[c] = <<>>
  /\ listings[c] = 0
  /\ CancelFiles(c)
  /\ Goto(c, "cancelWait")
  /\ UNCHANGED <<task, hand, arg, from, error, size, offset, block,
                 startCounter, finishCounter, digest, stage, osVars, poolVars,
                 coordVars, dialogVars>>

CancelReturns(c) ==
  /\ pc[c] = "cancelWait"
  /\ notFinished[c] <= 0
  /\ Goto(c, "pump")
  /\ UNCHANGED <<task, hand, arg, from, taskVars, osVars, poolVars, coordVars,
                 dialogVars>>

(* The window is destroyed: ~MainDialog calls Cancel(false) ... *)
Close(c) ==
  /\ pc[c] = "pump"
  /\ CancelFiles(c)
  /\ Goto(c, "unregister")
  /\ UNCHANGED <<task, hand, arg, from, error, size, offset, block,
                 startCounter, finishCounter, digest, stage, osVars, poolVars,
                 coordVars, dialogVars>>

(* ... and UnregisterWindow; what was sent to the window is lost. *)
UnregisterWindow(c) ==
  /\ pc[c] = "unregister"
  /\ Unlocked(c)
  /\ window' = [window EXCEPT ![c] = FALSE]
  /\ inbox' = [inbox EXCEPT ![c] = <<>>]
  /\ Goto(c, "uiDereference")
  /\ UNCHANGED <<task, hand, arg, from, taskVars, osVars, poolVars, mutex,
                 notFinished, references, sizeTotal, progressed, dialogVars>>

WindowDereference(c) ==
  /\ pc[c] = "uiDereference"
  /\ Dereference(c)
  /\ Goto(c, "closed")
  /\ UNCHANGED <<task, hand, arg, from, taskVars, osVars, poolVars, window,
                 mutex, notFinished, sizeTotal, progressed, inbox, dialogVars>>

-----------------------------------------------------------------------------
(* ~Coordinator, after the window closed; a property sheet may release the *)
(* page while the dialog still runs on its own thread.                     *)

DeleteBegins(c) ==
  /\ deleting[c] = "no"
  /\ \/ pc[c] = "closed"
     \/ "release" \in Faults /\ pc[c] \in WindowLabels \ {"addFiles"}
  /\ CancelFiles(c)
  /\ deleting' = [deleting EXCEPT ![c] = "cancelling"]
  /\ UNCHANGED <<threadVars, error, size, offset, block, startCounter,
                 finishCounter, digest, stage, osVars, poolVars, coordVars,
                 todo, bar, listings, seen>>

FilesCancelled(c) ==
  /\ deleting[c] = "cancelling"
  /\ notFinished[c] <= 0
  /\ deleting' = [deleting EXCEPT ![c] = "draining"]
  /\ UNCHANGED <<threadVars, taskVars, osVars, poolVars, coordVars, todo, bar,
                 listings, seen>>

(* Seeded fault: the destructor does not wait for references. *)
Unreferenced_Unchecked(c) == references[c] >= 0

Unreferenced(c) == references[c] = 0

(* From here on the coordinator and its tasks do not exist. *)
Deleted(c) ==
  /\ deleting[c] = "draining"
  /\ Unreferenced(c)
  /\ deleting' = [deleting EXCEPT ![c] = "gone"]
  /\ UNCHANGED <<threadVars, taskVars, osVars, poolVars, coordVars, todo, bar,
                 listings, seen>>

-----------------------------------------------------------------------------
WorkerStep(w) == (TaskStep(w) \/ CallbackStep(w)) /\ UNCHANGED dialogVars

(* What the user interface thread does without the user. *)
DialogStep(c) ==
  \/ RegisterWindow(c)
  \/ FilesAdded(c)
  \/ NoFiles(c)
  \/ \E t \in Tasks : AddFile(c, t) \/ CountFile(c, t)
  \/ StartProcessing(c)
  \/ FilesStarted(c)
  \/ NotifyOwnWindow(c)
  \/ HandleFinished(c)
  \/ HandleProgress(c)
  \/ CancelReturns(c)
  \/ UnregisterWindow(c)
  \/ WindowDereference(c)
  \/ TaskStep(c) /\ UNCHANGED dialogVars

UserStep(c) == CancelClicked(c) \/ Close(c)

DeleteStep(c) == DeleteBegins(c) \/ FilesCancelled(c) \/ Deleted(c)

(* Every window is closed and every coordinator gone: the program ends. *)
AllGone == \A c \in Coordinators : deleting[c] = "gone"
Terminated == AllGone /\ UNCHANGED vars

Next ==
  \/ \E w \in Workers : WorkerStep(w)
  \/ \E c \in Coordinators : DialogStep(c) \/ UserStep(c) \/ DeleteStep(c)
  \/ Terminated

Spec == Init /\ [][Next]_vars

(***************************************************************************)
(* The thread pool runs what is submitted and the system completes every   *)
(* read; a user interface thread that can run runs; a coordinator whose    *)
(* window is closed is deleted.  The user need do nothing.                 *)
(***************************************************************************)
Fairness ==
  /\ \A w \in Workers : WF_vars(WorkerStep(w))
  /\ \A c \in Coordinators : WF_vars(DialogStep(c)) /\ WF_vars(DeleteStep(c))

FairSpec == Spec /\ Fairness
=============================================================================

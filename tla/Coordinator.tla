----------------------------- MODULE Coordinator -----------------------------
(***************************************************************************)
(* Coordinator.cpp: the object between a window and the file tasks it      *)
(* owns.  It counts references (the window's and one per running task)     *)
(* and unfinished files, and posts two kinds of messages to the window     *)
(* under _window_mutex.  SendNotifyMessage from another thread appends to  *)
(* the window's queue of sent messages; from the window's own thread it    *)
(* runs the handler at once, which is the caller's business here.          *)
(*                                                                         *)
(* Sizes are counted in blocks, and the bar has Resolution parts.          *)
(***************************************************************************)
EXTENDS Integers, Sequences, FiniteSets

CONSTANTS Coordinators,
          Tasks,
          Owner,       \* the coordinator a task belongs to (_prop_page)
          NoThread,    \* an unlocked mutex
          Resolution   \* k_progress_resolution, 256 in the code

ASSUME CoordinatorAssumption ==
  /\ Owner \in [Tasks -> Coordinators]
  /\ IsFiniteSet(Coordinators) /\ IsFiniteSet(Tasks)
  /\ Resolution \in Nat \ {0}

VARIABLES window,       \* is a window registered (_window # nullptr)
          mutex,        \* the thread that holds _window_mutex
          notFinished,  \* _files_not_finished
          references,   \* _references
          sizeTotal,    \* _size_total
          progressed,   \* _size_progressed
          inbox         \* messages sent to the window and not yet handled

coordVars ==
  <<window, mutex, notFinished, references, sizeTotal, progressed, inbox>>

Owned(c) == {t \in Tasks : Owner[t] = c}

AllFilesFinished == [kind |-> "finished", part |-> 0]
FileProgress(n)  == [kind |-> "progress", part |-> n]
Message == [kind : {"finished", "progress"}, part : Nat]

CoordinatorTypeOK(Thread) ==
  /\ window \in [Coordinators -> BOOLEAN]
  /\ mutex \in [Coordinators -> Thread \cup {NoThread}]
  /\ notFinished \in [Coordinators -> Int]
  /\ references \in [Coordinators -> Int]
  /\ sizeTotal \in [Coordinators -> Nat]
  /\ progressed \in [Coordinators -> Nat]
  /\ inbox \in [Coordinators -> Seq(Message)]

CoordinatorInit ==
  /\ window = [c \in Coordinators |-> FALSE]
  /\ mutex = [c \in Coordinators |-> NoThread]
  /\ notFinished = [c \in Coordinators |-> 0]
  /\ references = [c \in Coordinators |-> 0]
  /\ sizeTotal = [c \in Coordinators |-> 0]
  /\ progressed = [c \in Coordinators |-> 0]
  /\ inbox = [c \in Coordinators |-> <<>>]

Unlocked(c) == mutex[c] = NoThread

(* Seeded fault: the reference is kept. *)

Dereference_Forgotten(c) == UNCHANGED references

Reference(c)   == references' = [references EXCEPT ![c] = @ + 1]
Dereference(c) == references' = [references EXCEPT ![c] = @ - 1]

(* Seeded faults: files are counted down only for a window, or never; the *)
(* count is tested before it is decremented.                              *)
CountDown_WindowOnly(c) ==
  notFinished' = [notFinished EXCEPT ![c] = IF window[c] THEN @ - 1 ELSE @]

CountDown_Never(c) == UNCHANGED notFinished

LastFile_Early(c) == window[c] /\ notFinished[c] = 0

(* What FileCompletionCallback does under the mutex. *)
CountDown(c) == notFinished' = [notFinished EXCEPT ![c] = @ - 1]
LastFile(c)  == window[c] /\ notFinished[c] - 1 = 0

(* SendNotifyMessage from a thread that does not own the window. *)
Send(c, m) == inbox' = [inbox EXCEPT ![c] = Append(@, m)]

(***************************************************************************)
(* FileProgressCallback: the atomic addition, then, only when the bar      *)
(* would move, a message under the mutex.                                  *)
(***************************************************************************)
Part(c, n) == (n * Resolution) \div sizeTotal[c]

(* Seeded fault: a store instead of an addition. *)
AddProgress_Stored(c, n) ==
  progressed' = [progressed EXCEPT ![c] = IF sizeTotal[c] = 0 THEN @ ELSE n]

AddProgress(c, n) ==
  progressed' = [progressed EXCEPT ![c] = IF sizeTotal[c] = 0 THEN @ ELSE @ + n]

BarMoves(c, n) ==
  /\ sizeTotal[c] # 0
  /\ Part(c, progressed[c]) # Part(c, progressed[c] + n)

PostProgress(c, n) ==
  /\ Unlocked(c)
  /\ IF window[c] THEN Send(c, FileProgress(n)) ELSE UNCHANGED inbox
=============================================================================

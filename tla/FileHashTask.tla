---------------------------- MODULE FileHashTask ----------------------------
(***************************************************************************)
(* FileHashTask.cpp: hashing one file, block after block.  A block is read *)
(* by one asynchronous I/O; its completion submits one work item per hash  *)
(* context; the work item that finishes last advances the file to its next *)
(* block.  A task that gets no block waits in g_read_queue, which whoever  *)
(* ends a callback drains.                                                 *)
(*                                                                         *)
(* The steps are those of a thread th: a worker of the thread pool, or the *)
(* user interface thread of a coordinator (named by the coordinator),      *)
(* which runs StartProcessing.  Each action is the code between two points *)
(* at which another thread can see the difference.                         *)
(***************************************************************************)
EXTENDS BlockPool, Coordinator

CONSTANTS Workers,    \* threads of the thread pool
          NoTask,
          HashCount,  \* LegacyHashAlgorithm::k_count, 31 in the code
          Enabled     \* the contexts of the enabled algorithms

Threads  == Workers \cup Coordinators
Contexts == 0 .. HashCount - 1

ASSUME TaskAssumption ==
  /\ Workers \cap Coordinators = {}
  /\ IsFiniteSet(Workers)
  /\ NoTask \notin Tasks
  /\ NoThread \notin Threads
  /\ HashCount \in Nat \ {0}
  /\ Enabled \subseteq Contexts

VARIABLES
  \* per task
  error,          \* _error: "none", "failed" or "cancelled"
  size,           \* _file_size, in blocks
  offset,         \* _current_offset, in blocks
  block,          \* _block
  cancelled,      \* _cancelled
  startCounter,   \* _hash_start_counter
  finishCounter,  \* _hash_finish_counter
  digest,         \* what each context of the task has been updated with
  stage,          \* history: how far the task is in its life
  \* the operating system and the queue
  readQueue,      \* g_read_queue: how often a task is in it
  pendingIo,      \* reads of a task that have not completed
  pendingWork,    \* submitted work items of a task that have not begun
  content,        \* the data in a block
  \* per thread
  pc,             \* where the thread is
  task,           \* "this", or the task that was dequeued
  hand,           \* reuse_block, or the block just allocated
  arg,            \* submissions left, ctx_index, or new_part
  from            \* the caller of ReadBlockAsync

taskVars == <<error, size, offset, block, cancelled, startCounter,
              finishCounter, digest, stage>>
osVars == <<readQueue, pendingIo, pendingWork, content>>
threadVars == <<pc, task, hand, arg, from>>

Junk == <<>>
Data == {Junk} \cup (Tasks \X Nat)

(***************************************************************************)
(* "counted" once ++_files_not_finished, "live" once referenced,           *)
(* "completed" once --_files_not_finished, "done" once dereferenced.       *)
(***************************************************************************)
Stages == {"new", "counted", "live", "completed", "done"}

(* At these labels a thread is inside a member function of its task. *)
HashLabels == {"update", "finishRound"}
SoleLabels == {"reset", "submit", "progress", "postProgress", "advance",
               "read", "giveBack", "enqueue", "complete", "notify",
               "dereference"}
TaskLabels == HashLabels \cup SoleLabels
WorkerLabels == {"idle", "drain"}
Callers == {"start", "queue", "block"}

TaskTypeOK ==
  /\ error \in [Tasks -> {"none", "failed", "cancelled"}]
  /\ size \in [Tasks -> Nat]
  /\ offset \in [Tasks -> Nat]
  /\ block \in [Tasks -> Blocks \cup {NoBlock}]
  /\ cancelled \in [Tasks -> BOOLEAN]
  /\ startCounter \in [Tasks -> Int]
  /\ finishCounter \in [Tasks -> Int]
  /\ digest \in [Tasks -> [Contexts -> Seq(Data)]]
  /\ stage \in [Tasks -> Stages]

SystemTypeOK ==
  /\ readQueue \in [Tasks -> Nat]
  /\ pendingIo \in [Tasks -> Nat]
  /\ pendingWork \in [Tasks -> Nat]
  /\ content \in [Blocks -> Data]

ThreadTypeOK(Label) ==
  /\ pc \in [Threads -> Label]
  /\ task \in [Threads -> Tasks \cup {NoTask}]
  /\ hand \in [Threads -> Blocks \cup {NoBlock}]
  /\ arg \in [Threads -> Int]
  /\ from \in [Threads -> Callers]

TaskInit ==
  /\ error = [t \in Tasks |-> "none"]
  /\ size = [t \in Tasks |-> 0]
  /\ offset = [t \in Tasks |-> 0]
  /\ block = [t \in Tasks |-> NoBlock]
  /\ cancelled = [t \in Tasks |-> FALSE]
  /\ startCounter = [t \in Tasks |-> 0]
  /\ finishCounter = [t \in Tasks |-> 0]
  /\ digest = [t \in Tasks |-> [i \in Contexts |-> <<>>]]
  /\ stage = [t \in Tasks |-> "new"]
  /\ readQueue = [t \in Tasks |-> 0]
  /\ pendingIo = [t \in Tasks |-> 0]
  /\ pendingWork = [t \in Tasks |-> 0]
  /\ content = [b \in Blocks |-> Junk]
  /\ task = [th \in Threads |-> NoTask]
  /\ hand = [th \in Threads |-> NoBlock]
  /\ arg = [th \in Threads |-> 0]
  /\ from = [th \in Threads |-> "queue"]

-----------------------------------------------------------------------------
Goto(th, l) == pc' = [pc EXCEPT ![th] = l]
Hold(th, b) == hand' = [hand EXCEPT ![th] = b]
Work(th, t) == task' = [task EXCEPT ![th] = t]
Left(th, n) == arg' = [arg EXCEPT ![th] = n]

(* GetCurrentBlockSize: whole blocks, so one or, at the end, nothing. *)
BlockSize(t) == IF offset[t] < size[t] THEN 1 ELSE 0

(* BlockReset; callers pass a null pointer without harm. *)
BlockReset(b) ==
  content' = IF b = NoBlock THEN content ELSE [content EXCEPT ![b] = Junk]

(* What a hash context reads; ContextsApart says it is never Junk. *)
BlockData(b) == IF b = NoBlock THEN Junk ELSE content[b]

SetError(t, e) == error' = [error EXCEPT ![t] = e]

(* Where a thread goes when ReadBlockAsync, or Finish inside it, returns. *)
ReturnFromRead(th, ok) ==
  /\ Goto(th, CASE th \in Coordinators          -> "processing"
                [] ok \/ from[th] = "block"     -> "drain"
                [] OTHER                        -> "idle")
  /\ Work(th, NoTask)

-----------------------------------------------------------------------------
(* ReadBlockAsync *)

(* Seeded fault: the constructor's error is not looked at. *)
HasFailed_Ignored(t) == FALSE

HasFailed(t) == error[t] # "none"

(* The task has failed before: drop the block and finish. *)
ReadBlockFailed(th) ==
  /\ pc[th] = "read"
  /\ HasFailed(task[th])
  /\ FreeUnlessNull(hand[th])
  /\ Hold(th, NoBlock)
  /\ Goto(th, "complete")
  /\ UNCHANGED <<task, arg, from, taskVars, osVars, coordVars>>

(* No block to reuse: BlockTryAllocate. *)
TryAllocate(th) ==
  /\ pc[th] = "read"
  /\ ~HasFailed(task[th])
  /\ hand[th] = NoBlock
  /\ \/ \E b \in Blocks : Allocate(b) /\ Hold(th, b) /\ UNCHANGED pc
     \/ AllocateFails /\ Goto(th, "giveBack") /\ UNCHANGED hand
  /\ UNCHANGED <<task, arg, from, taskVars, osVars, coordVars>>

AllocationGivenBack(th) ==
  /\ pc[th] = "giveBack"
  /\ GiveBack
  /\ Goto(th, "enqueue")
  /\ UNCHANGED <<task, hand, arg, from, taskVars, osVars, coordVars>>

(* ReadFile succeeds or is pending; from here on its callback may run. *)
StartRead(th) ==
  /\ pc[th] = "read"
  /\ ~HasFailed(task[th])
  /\ hand[th] # NoBlock
  /\ block' = [block EXCEPT ![task[th]] = hand[th]]
  /\ pendingIo' = [pendingIo EXCEPT ![task[th]] = @ + 1]
  /\ Hold(th, NoBlock)
  /\ ReturnFromRead(th, TRUE)
  /\ UNCHANGED <<arg, from, error, size, offset, cancelled, startCounter,
                 finishCounter, digest, stage, readQueue, pendingWork, content,
                 poolVars, coordVars>>

(* ReadFile fails: the block is freed, then requeue or give up. *)
StartReadFails(th) ==
  /\ pc[th] = "read"
  /\ ~HasFailed(task[th])
  /\ hand[th] # NoBlock
  /\ block' = [block EXCEPT ![task[th]] = NoBlock]
  /\ BlockFree(hand[th])
  /\ Hold(th, NoBlock)
  /\ \/ "busy" \in Faults /\ Goto(th, "enqueue") /\ UNCHANGED error
     \/ "read" \in Faults /\ SetError(task[th], "failed") /\ Goto(th, "complete")
  /\ UNCHANGED <<task, arg, from, size, offset, cancelled, startCounter,
                 finishCounter, digest, stage, osVars, coordVars>>

Enqueue(th) ==
  /\ pc[th] = "enqueue"
  /\ readQueue' = [readQueue EXCEPT ![task[th]] = @ + 1]
  /\ ReturnFromRead(th, FALSE)
  /\ UNCHANGED <<hand, arg, from, taskVars, pendingIo, pendingWork, content,
                 poolVars, coordVars>>

-----------------------------------------------------------------------------
(* Finish: FileCompletionCallback, then Dereference. *)

(* Lock, count down; without a message to send, unlock as well. *)
Complete(th) ==
  LET c == Owner[task[th]] IN
  /\ pc[th] = "complete"
  /\ Unlocked(c)
  /\ CountDown(c)
  /\ stage' = [stage EXCEPT ![task[th]] = "completed"]
  /\ IF LastFile(c)
       THEN mutex' = [mutex EXCEPT ![c] = th] /\ Goto(th, "notify")
       ELSE UNCHANGED mutex /\ Goto(th, "dereference")
  /\ UNCHANGED <<task, hand, arg, from, error, size, offset, block, cancelled,
                 startCounter, finishCounter, digest, osVars, poolVars, window,
                 references, sizeTotal, progressed, inbox>>

(* SendNotifyMessage to another thread's window, then unlock. *)
Notify(th) ==
  LET c == Owner[task[th]] IN
  /\ pc[th] = "notify"
  /\ th # c
  /\ Send(c, AllFilesFinished)
  /\ mutex' = [mutex EXCEPT ![c] = NoThread]
  /\ Goto(th, "dereference")
  /\ UNCHANGED <<task, hand, arg, from, taskVars, osVars, poolVars, window,
                 notFinished, references, sizeTotal, progressed>>

(* The last step that may use the task or its coordinator. *)
FinishDereference(th) ==
  /\ pc[th] = "dereference"
  /\ Dereference(Owner[task[th]])
  /\ stage' = [stage EXCEPT ![task[th]] = "done"]
  /\ ReturnFromRead(th, TRUE)
  /\ UNCHANGED <<hand, arg, from, error, size, offset, block, cancelled,
                 startCounter, finishCounter, digest, osVars, poolVars, window,
                 mutex, notFinished, sizeTotal, progressed, inbox>>

-----------------------------------------------------------------------------
(* ProcessReadQueue, which ends every callback of the thread pool. *)

(* Queues.cpp's queue orders nothing between producers, so it is a bag. *)
Dequeue(w, t) ==
  /\ pc[w] = "drain"
  /\ readQueue[t] > 0
  /\ readQueue' = [readQueue EXCEPT ![t] = @ - 1]
  /\ Work(w, t)
  /\ from' = [from EXCEPT ![w] = "queue"]
  /\ Goto(w, "read")
  /\ UNCHANGED <<hand, arg, taskVars, pendingIo, pendingWork, content,
                 poolVars, coordVars>>

QueueEmpty(w) ==
  /\ pc[w] = "drain"
  /\ \A t \in Tasks : readQueue[t] = 0
  /\ FreeUnlessNull(hand[w])
  /\ Hold(w, NoBlock)
  /\ Goto(w, "idle")
  /\ UNCHANGED <<task, arg, from, taskVars, osVars, coordVars>>

-----------------------------------------------------------------------------
(* OverlappedCompletionRoutine *)

(* Seeded fault: a failed ReadFile leaves a completion behind. *)
ReadArrives_Spurious(w, t) ==
  pc[w] = "idle" /\ stage[t] = "live" /\ pendingIo[t] <= 0

ReadArrives(w, t) == pc[w] = "idle" /\ pendingIo[t] > 0

(* A failed or cancelled read: keep the block for the queue, finish. *)
ReadCompletedBadly(w, t) ==
  /\ ReadArrives(w, t)
  /\ cancelled[t] \/ "disk" \in Faults
  /\ pendingIo' = [pendingIo EXCEPT ![t] = @ - 1]
  /\ SetError(t, IF cancelled[t] THEN "cancelled" ELSE "failed")
  /\ Hold(w, block[t])
  /\ block' = [block EXCEPT ![t] = NoBlock]
  /\ BlockReset(block[t])
  /\ Work(w, t)
  /\ Goto(w, "complete")
  /\ UNCHANGED <<arg, from, size, offset, cancelled, startCounter,
                 finishCounter, digest, stage, readQueue, pendingWork,
                 poolVars, coordVars>>

(* Seeded fault: _cancelled is not looked at when a read completes. *)
MayHash_Always(t) == TRUE

MayHash(t) == ~cancelled[t]

(* The data is there, and the file was not cancelled when this was asked.  *)
ReadCompleted(w, t) ==
  /\ ReadArrives(w, t)
  /\ MayHash(t)
  /\ pendingIo' = [pendingIo EXCEPT ![t] = @ - 1]
  /\ content' = [content EXCEPT ![block[t]] = <<t, offset[t]>>]
  /\ Work(w, t)
  /\ Goto(w, "reset")
  /\ UNCHANGED <<hand, arg, from, taskVars, readQueue, pendingWork, poolVars,
                 coordVars>>

(* Seeded faults: a counter starts one off. *)
ResetCounters_Long(t) ==
  /\ startCounter' = [startCounter EXCEPT ![t] = HashCount + 1]
  /\ finishCounter' = [finishCounter EXCEPT ![t] = HashCount]

ResetCounters_Short(t) ==
  /\ startCounter' = [startCounter EXCEPT ![t] = HashCount]
  /\ finishCounter' = [finishCounter EXCEPT ![t] = HashCount - 1]

ResetCounters(t) ==
  /\ startCounter' = [startCounter EXCEPT ![t] = HashCount]
  /\ finishCounter' = [finishCounter EXCEPT ![t] = HashCount]

(* It may be cancelled by now: AddToHashQueue resets the counters ... *)
AddToHashQueue(w) ==
  /\ pc[w] = "reset"
  /\ ResetCounters(task[w])
  /\ Left(w, HashCount)
  /\ Goto(w, "submit")
  /\ UNCHANGED <<task, hand, from, error, size, offset, block, cancelled,
                 digest, stage, osVars, poolVars, coordVars>>

(* ... and submits the work items, the first of which may run at once. *)
SubmitWork(w) ==
  /\ pc[w] = "submit"
  /\ pendingWork' = [pendingWork EXCEPT ![task[w]] = @ + 1]
  /\ Left(w, arg[w] - 1)
  /\ IF arg[w] = 1
       THEN Goto(w, "drain") /\ Work(w, NoTask)
       ELSE UNCHANGED <<pc, task>>
  /\ UNCHANGED <<hand, from, taskVars, readQueue, pendingIo, content,
                 poolVars, coordVars>>

-----------------------------------------------------------------------------
(* DoHashRound *)

BeginHash(w, t) ==
  /\ pc[w] = "idle"
  /\ pendingWork[t] > 0
  /\ pendingWork' = [pendingWork EXCEPT ![t] = @ - 1]
  /\ startCounter' = [startCounter EXCEPT ![t] = @ - 1]
  /\ Left(w, startCounter[t] - 1)
  /\ Work(w, t)
  /\ Goto(w, "update")
  /\ UNCHANGED <<hand, from, error, size, offset, block, cancelled,
                 finishCounter, digest, stage, readQueue, pendingIo, content,
                 poolVars, coordVars>>

(* ctx.Update with the data of _block, if the algorithm is enabled. *)
Update(w) ==
  LET t == task[w]
      i == arg[w] IN
  /\ pc[w] = "update"
  /\ digest' = IF i \in Enabled /\ BlockSize(t) > 0
                 THEN [digest EXCEPT ![t][i] = Append(@, BlockData(block[t]))]
                 ELSE digest
  /\ Goto(w, "finishRound")
  /\ UNCHANGED <<task, hand, arg, from, error, size, offset, block, cancelled,
                 startCounter, finishCounter, stage, osVars, poolVars,
                 coordVars>>

(* Seeded faults: two work items believe they are last; or none does. *)
LastOfRound_Early(t) == finishCounter[t] - 1 <= 1

LastOfRound_Never(t) == finishCounter[t] = 0

(* --_hash_finish_counter is zero. *)
LastOfRound(t) == finishCounter[t] - 1 = 0

FinishHash(w) ==
  LET t == task[w] IN
  /\ pc[w] = "finishRound"
  /\ finishCounter' = [finishCounter EXCEPT ![t] = @ - 1]
  /\ IF LastOfRound(t)
       THEN Goto(w, "progress") /\ UNCHANGED task
       ELSE Goto(w, "idle") /\ Work(w, NoTask)
  /\ UNCHANGED <<hand, arg, from, error, size, offset, block, cancelled,
                 startCounter, digest, stage, osVars, poolVars, coordVars>>

-----------------------------------------------------------------------------
(* FinishedBlock *)

CountProgress(w) ==
  LET c == Owner[task[w]]
      n == BlockSize(task[w]) IN
  /\ pc[w] = "progress"
  /\ AddProgress(c, n)
  /\ IF BarMoves(c, n)
       THEN Goto(w, "postProgress") /\ Left(w, Part(c, progressed[c] + n))
       ELSE Goto(w, "advance") /\ UNCHANGED arg
  /\ UNCHANGED <<task, hand, from, taskVars, osVars, poolVars, window, mutex,
                 notFinished, references, sizeTotal, inbox>>

SendProgress(w) ==
  /\ pc[w] = "postProgress"
  /\ PostProgress(Owner[task[w]], arg[w])
  /\ Goto(w, "advance")
  /\ UNCHANGED <<task, hand, arg, from, taskVars, osVars, poolVars, window,
                 mutex, notFinished, references, sizeTotal, progressed>>

(* Seeded fault: a cancelled file keeps its clean error code. *)
MarkCancelled_Forgotten(t) == UNCHANGED error

MarkCancelled(t) ==
  IF cancelled[t] THEN SetError(t, "cancelled") ELSE UNCHANGED error

(* Next block with the block of this one, or finish. *)
Advance(w) ==
  LET t == task[w] IN
  /\ pc[w] = "advance"
  /\ offset' = [offset EXCEPT ![t] = @ + BlockSize(t)]
  /\ Hold(w, block[t])
  /\ block' = [block EXCEPT ![t] = NoBlock]
  /\ BlockReset(block[t])
  /\ IF offset'[t] < size[t] /\ ~cancelled[t]
       THEN /\ from' = [from EXCEPT ![w] = "block"]
            /\ Goto(w, "read")
            /\ UNCHANGED error
       ELSE /\ MarkCancelled(t)
            /\ Goto(w, "complete")
            /\ UNCHANGED from
  /\ UNCHANGED <<task, arg, size, cancelled, startCounter, finishCounter,
                 digest, stage, readQueue, pendingIo, pendingWork, poolVars,
                 coordVars>>

-----------------------------------------------------------------------------
(* The steps of ReadBlockAsync and Finish, which any thread may take ... *)
TaskStep(th) ==
  \/ ReadBlockFailed(th)
  \/ TryAllocate(th)
  \/ AllocationGivenBack(th)
  \/ StartRead(th)
  \/ StartReadFails(th)
  \/ Enqueue(th)
  \/ Complete(th)
  \/ Notify(th)
  \/ FinishDereference(th)

(* ... and those of the callbacks, which run on the thread pool. *)
CallbackStep(w) ==
  \/ QueueEmpty(w)
  \/ AddToHashQueue(w)
  \/ SubmitWork(w)
  \/ Update(w)
  \/ FinishHash(w)
  \/ CountProgress(w)
  \/ SendProgress(w)
  \/ Advance(w)
  \/ \E t \in Tasks :
       \/ Dequeue(w, t)
       \/ ReadCompletedBadly(w, t)
       \/ ReadCompleted(w, t)
       \/ BeginHash(w, t)
=============================================================================

-------------------------- MODULE HashPipelineProps --------------------------
(***************************************************************************)
(* What the hashing pipeline guarantees, and three statements of the       *)
(* source that it does not keep (at the end).                              *)
(***************************************************************************)
EXTENDS HashPipeline, Functions

(* Threads inside a member function of t that must be alone in it, and    *)
(* threads that execute one of t's parallel work items.                   *)
Sole(t) ==
  {th \in Threads : pc[th] \in SoleLabels \ {"submit"} /\ task[th] = t}
Hashing(t) == {th \in Threads : pc[th] \in HashLabels /\ task[th] = t}

(* Submissions AddToHashQueue has still to make for t. *)
Unsubmitted(t) ==
  {s \in Threads \X (1 .. HashCount) :
     pc[s[1]] = "submit" /\ task[s[1]] = t /\ s[2] <= arg[s[1]]}

WholeFileHashed(t) ==
  \A i \in Enabled : digest[t][i] = [n \in 1 .. size[t] |-> <<t, n - 1>>]

Finished(t) == stage[t] \in {"completed", "done"}
Indicator(P) == IF P THEN 1 ELSE 0

-----------------------------------------------------------------------------
(* The places a task may be in: the read queue, a pending read, a thread,  *)
(* or its hash round.                                                      *)
Places(t) ==
  readQueue[t] + pendingIo[t] + Cardinality(Sole(t))
    + Indicator(finishCounter[t] > 0)

Running(t) == stage[t] \in {"live", "completed"}

(* A running task is in exactly one place, and a task that is not running  *)
(* in none.  This is what lets FileHashTask use plain members without a    *)
(* lock.                                                                   *)
OneOwner == \A t \in Tasks : Places(t) = Indicator(Running(t))

(* Work items of t that are not submitted, not begun or not ended. *)
ItemsLeft(t) ==
  pendingWork[t] + Cardinality(Hashing(t)) + Cardinality(Unsubmitted(t))

(* The finish counter counts the work items left of the round, so the one  *)
(* that brings it to zero (DoHashRound's FinishedBlock) is the last to     *)
(* touch the block.                                                        *)
RoundCounted == \A t \in Tasks : finishCounter[t] = ItemsLeft(t)

(* The work items of a round use different hash contexts, and each finds   *)
(* in _block the data of the task's own current offset.                    *)
ContextsApart ==
  \A w \in Workers : pc[w] = "update" =>
    /\ arg[w] \in Contexts
    /\ \A v \in Hashing(task[w]) \ {w} : arg[v] # arg[w]
    /\ block[task[w]] # NoBlock
    /\ BlockSize(task[w]) > 0 =>
         BlockData(block[task[w]]) = <<task[w], offset[task[w]]>>

(* A file that is reported without an error has had every one of its       *)
(* blocks hashed once and in order, by every enabled algorithm, whatever   *)
(* was cancelled, requeued or handed from file to file meanwhile.          *)
DigestsComplete ==
  \A t \in Tasks : Finished(t) /\ error[t] = "none" => WholeFileHashed(t)

(* No block is held twice, by tasks, by threads or by one of each. *)
HoldersApart ==
  /\ \A t, u \in Tasks : t # u /\ block[t] # NoBlock => block[t] # block[u]
  /\ \A th, ti \in Threads : th # ti /\ hand[th] # NoBlock => hand[th] # hand[ti]
  /\ \A t \in Tasks, th \in Threads : block[t] # NoBlock => block[t] # hand[th]

(* Every committed block is held by exactly one task or one thread, and    *)
(* by nobody twice: none leaks, none is freed or reused under a reader.    *)
BlocksOwned ==
  /\ live = {b \in Blocks : (\E t \in Tasks : block[t] = b)
                              \/ (\E th \in Threads : hand[th] = b)}
  /\ HoldersApart

(* Threads whose attempt to allocate has failed and not been undone. *)
GivingBack == {th \in Threads : pc[th] = "giveBack"}

(* The budget is exact: what is not free is committed, or about to be      *)
(* given back by a thread whose attempt failed; it is never exceeded.      *)
BudgetKept ==
  /\ remaining + Cardinality(live) + Cardinality(GivingBack) = MaxAllocations
  /\ Cardinality(live) <= MaxAllocations

(* The two counters the destructor and Cancel wait for are exact:          *)
(* _references counts the registered window and the running tasks, and     *)
(* _files_not_finished the files begun and not completed.                  *)
CountersExact ==
  \A c \in Coordinators :
    /\ references[c] = Cardinality({t \in Owned(c) : Running(t)})
                         + Indicator(pc[c] \in WindowLabels)
    /\ notFinished[c] =
         Cardinality({t \in Owned(c) : stage[t] \in {"counted", "live"}})

(* Once the destructor of a coordinator has passed its two waits, nothing  *)
(* can reach the coordinator or its tasks: no thread, no callback to come, *)
(* no entry of the read queue that other coordinators drain, no window.    *)
NoUseAfterFree ==
  \A c \in Coordinators : deleting[c] = "gone" =>
    /\ pc[c] = "closed"
    /\ mutex[c] = NoThread
    /\ \A t \in Owned(c) :
         /\ readQueue[t] = 0 /\ pendingIo[t] = 0 /\ pendingWork[t] = 0
         /\ block[t] = NoBlock
         /\ \A th \in Threads : pc[th] \in TaskLabels => task[th] # t

(* When all files are done and no message is on its way, the dialog has    *)
(* listed all of them: the last completion is never lost.                  *)
LastListingSeesAll ==
  \A c \in Coordinators :
    ( /\ pc[c] \in {"pump", "cancelWait"}
      /\ \A t \in Owned(c) : Finished(t)
      /\ Unlocked(c)
      /\ \A n \in DOMAIN inbox[c] : inbox[c][n].kind # "finished" )
    => listings[c] > 0 /\ seen[c] = Owned(c)

(* _size_progressed is the sum of what the tasks have hashed, so the bar   *)
(* is never sent beyond its end, and reaches it if nothing fails.          *)
ProgressExact ==
  \A c \in Coordinators :
    LET ahead == {t \in Owned(c) : \E w \in Workers :
                    /\ pc[w] \in {"postProgress", "advance"} /\ task[w] = t
                    /\ BlockSize(t) > 0}
    IN  /\ progressed[c] =
             SumFunctionOnSet(offset, Owned(c)) + Cardinality(ahead)
        /\ progressed[c] <= sizeTotal[c]
        /\ \A n \in DOMAIN inbox[c] : inbox[c][n].part <= Resolution

-----------------------------------------------------------------------------
(* After Finish the task is not used any more ("Do NOT use this after      *)
(* calling Finish()", FileHashTask.h:117): its fields never change again.  *)
UntouchedAfterFinish ==
  [][\A t \in Tasks : stage[t] = "done" =>
       UNCHANGED <<stage[t], error[t], offset[t], block[t], digest[t],
                   startCounter[t], finishCounter[t], pendingIo[t],
                   pendingWork[t], readQueue[t]>>]_vars

(* An error, once set, stays what it was: neither a cancellation nor a     *)
(* later failure overwrites the reason a file failed for.                  *)
ErrorSticks ==
  [][\A t \in Tasks : error[t] # "none" => error'[t] = error[t]]_vars

(* A block of t is on its way through the contexts: its read completed     *)
(* before the file was cancelled, and offset does not count it yet.        *)
UnderWay(t) ==
  \/ finishCounter[t] > 0
  \/ \E w \in Workers : /\ pc[w] \in {"reset", "progress", "postProgress", "advance"}
                        /\ task[w] = t

(* A cancelled file is hashed to the end of the block that was being       *)
(* hashed, if any, and no further: a round that the click on Cancel finds  *)
(* begun, or between the test of _cancelled and the reset of the counters, *)
(* ends; from then on no context is updated, no offset moves and no other  *)
(* round begins, although the task may still be queued and read.           *)
CancelStopsHashing ==
  [][\A t \in Tasks : cancelled[t] /\ ~UnderWay(t) =>
       ~UnderWay(t)' /\ UNCHANGED <<digest[t], offset[t]>>]_vars

-----------------------------------------------------------------------------
(* The pipeline implements HashJobs.  A file whose digest is incomplete    *)
(* has no verdict there, whatever the code says of it.                     *)
Verdict(t) ==
  CASE stage[t] = "new"                     -> "waiting"
    [] Finished(t) /\ error[t] # "none"     -> "failed"
    [] /\ Finished(t) /\ error[t] = "none"
       /\ WholeFileHashed(t)                -> "hashed"
    [] OTHER                                -> "running"

Jobs == INSTANCE HashJobs WITH
          verdict <- [t \in Tasks |-> Verdict(t)],
          exists  <- [c \in Coordinators |-> deleting[c] # "gone"]

ImplementsHashJobs == Jobs!Spec

-----------------------------------------------------------------------------
(* Every file that ProcessFiles has counted is finished.                   *)
FilesFinish ==
  \A t \in Tasks : stage[t] = "counted" ~> stage[t] = "done"

(* A window that is not closed first is told when its files are done, also *)
(* when it has none.                                                       *)
ListingArrives ==
  \A c \in Coordinators :
    pc[c] = "addFiles" ~> listings[c] > 0 \/ pc[c] = "unregister"

(* A click on Cancel does not hang the window.                             *)
CancelEnds ==
  \A c \in Coordinators : pc[c] = "cancelWait" ~> pc[c] = "pump"

(* A window that is closed is unregistered, and its coordinator destroyed. *)
CloseEnds ==
  \A c \in Coordinators : pc[c] = "unregister" ~> deleting[c] = "gone"

-----------------------------------------------------------------------------
(* Coordinator.h:56: "The window should probably only inspect files before *)
(* processing or after all are done".                                      *)
ListsOnlyWhenDone ==
  \A c \in Coordinators : listings[c] > 0 => seen[c] = Owned(c)

(* FileHashTask.cpp:220: a file that "just ran out of memory or            *)
(* outstanding async ios" is requeued, to be read later.                   *)
QueuedFilesResume ==
  \A t \in Tasks : readQueue[t] > 0 ~> readQueue[t] = 0

(* FileHashTask.cpp:213, assert(_error): ReadBlockAsync gives a file up    *)
(* only if it has an error.                                                *)
GiveUpAsserted ==
  [][\A th \in Threads :
       pc[th] = "read" /\ pc'[th] = "complete" => error[task[th]] # "none"]_vars
=============================================================================
